---- MODULE Spec2Model ----
(***************************************************************************)
(* Model of the analysis core of coin-analyzer (python-backend/utils):     *)
(* extrema detection, RSI divergence, Fibonacci levels and pivot points,   *)
(* the indicator pipeline's data requirement and the volume trend.         *)
(*                                                                         *)
(* The functions are pure: each specification draws a call's inputs from   *)
(* a bounded set in its initial states and has one action per function,    *)
(* which stores what the function returns.  Sequences are 1-based in TLA+; *)
(* every index kept in the state is the 0-based index the Python code      *)
(* uses, and At(s, i) reads s.iloc[i].  Floating-point values are modelled *)
(* by integers (exact arithmetic, scaled where the code multiplies by a    *)
(* decimal fraction); NaN is a value of its own on which every comparison  *)
(* is false, as in IEEE 754.                                               *)
(***************************************************************************)
EXTENDS Integers, Sequences, FiniteSets, TLC

VARIABLES pc, df, args, ret

vars == <<pc, df, args, ret>>

\* ------------------------------------------------------------------ values

\* float('nan') / None in a numeric column (pd.isna is true of it)
NaN == -999

isna(x) == x = NaN

\* Python's > and < on floats: false as soon as one side is NaN
Gt(a, b) == ~isna(a) /\ ~isna(b) /\ a > b
Lt(a, b) == ~isna(a) /\ ~isna(b) /\ a < b

\* Optional values: None is the empty tuple, a present value v is <<v>>
None == <<>>
Some(v) == <<v>>

\* s.iloc[i], i 0-based
At(s, i) == s[i + 1]

\* s.tail(n): the last n elements (all of s when it is shorter)
Tail_n(s, n) == IF Len(s) <= n THEN s ELSE SubSeq(s, Len(s) - n + 1, Len(s))

\* all sequences over vals of a length in lo..hi
SeqsOf(vals, lo, hi) == UNION {[1..n -> vals] : n \in lo..hi}

Abs(x) == IF x < 0 THEN -x ELSE x

RECURSIVE SeqMax(_)
SeqMax(s) == IF Len(s) = 1 THEN s[1]
             ELSE LET m == SeqMax(Tail(s)) IN IF s[1] > m THEN s[1] ELSE m

RECURSIVE SeqMin(_)
SeqMin(s) == IF Len(s) = 1 THEN s[1]
             ELSE LET m == SeqMin(Tail(s)) IN IF s[1] < m THEN s[1] ELSE m

\* the state before any call returned
NoRet == [fn |-> "none"]

\* ------------------------------------------------- find_peaks_valleys

\* bounds of the extrema specification
MaxExtLen == 7
MaxWindow == 3
ExtVals == {NaN, 1, 2, 3}

\* mutant: >= instead of >, a tie with a neighbour still makes a peak
is_peak_MutNonStrict(series, i, window) ==
    /\ ~isna(At(series, i))
    /\ \A j \in 1..window : ~Lt(At(series, i), At(series, i - j))
    /\ \A j \in 1..window : ~Lt(At(series, i), At(series, i + j))

\* mutant: a peak is compared with the samples before it only
is_peak_MutBeforeOnly(series, i, window) ==
    \A j \in 1..window : Gt(At(series, i), At(series, i - j))

\* all(series.iloc[i] > series.iloc[i - j] for j in range(1, window + 1)) and the same for i + j
is_peak(series, i, window) ==
    /\ \A j \in 1..window : Gt(At(series, i), At(series, i - j))
    /\ \A j \in 1..window : Gt(At(series, i), At(series, i + j))

is_valley(series, i, window) ==
    /\ \A j \in 1..window : Lt(At(series, i), At(series, i - j))
    /\ \A j \in 1..window : Lt(At(series, i), At(series, i + j))

\* the loop `for i in range(window, len(series) - window)`, with its `continue`
RECURSIVE fpv_loop(_, _, _, _, _)
fpv_loop(series, window, i, peaks, valleys) ==
    IF i >= Len(series) - window THEN [peaks |-> peaks, valleys |-> valleys]
    ELSE IF is_peak(series, i, window)
         THEN fpv_loop(series, window, i + 1, Append(peaks, i), valleys)
         ELSE IF is_valley(series, i, window)
              THEN fpv_loop(series, window, i + 1, peaks, Append(valleys, i))
              ELSE fpv_loop(series, window, i + 1, peaks, valleys)

find_peaks_valleys(series, window) ==
    IF Len(series) < 2 * window + 1 THEN [peaks |-> <<>>, valleys |-> <<>>]
    ELSE fpv_loop(series, window, window, <<>>, <<>>)

InitExtrema ==
    /\ pc = "call"
    /\ df \in SeqsOf(ExtVals, 0, MaxExtLen)
    /\ args \in [window : 1..MaxWindow]
    /\ ret = NoRet

CallFindPeaksValleys ==
    /\ pc = "call"
    /\ ret' = find_peaks_valleys(df, args.window)
    /\ pc' = "done"
    /\ UNCHANGED <<df, args>>

NextExtrema == CallFindPeaksValleys

SpecExtrema == InitExtrema /\ [][NextExtrema]_vars

Range(s) == {s[k] : k \in 1..Len(s)}

StrictlyIncreasing(s) == \A k \in 1..(Len(s) - 1) : s[k] < s[k + 1]

\* any two entries of the list are more than w positions apart
Spaced(s, w) == \A i, j \in Range(s) : i # j => Abs(i - j) > w

\* C28: for every series and window w >= 1, no index is both a peak and a
\* valley; each list is in strictly increasing order with every index in
\* [w, len - w); two peaks are more than w positions apart, and so are two
\* valleys.
C28_ExtremaStructure ==
    pc = "done" =>
        /\ Range(ret.peaks) \cap Range(ret.valleys) = {}
        /\ StrictlyIncreasing(ret.peaks) /\ StrictlyIncreasing(ret.valleys)
        /\ \A i \in Range(ret.peaks) \cup Range(ret.valleys) :
               args.window <= i /\ i < Len(df) - args.window
        /\ Spaced(ret.peaks, args.window) /\ Spaced(ret.valleys, args.window)

\* three peaks and two valleys between them, each two positions from the next of its kind
C28_Witness ==
    /\ pc = "done"
    /\ args.window = 1
    /\ Len(ret.peaks) = 3 /\ Len(ret.valleys) = 2
    /\ ret.peaks[2] - ret.peaks[1] = 2

\* C5: i is reported as a peak iff window <= i < len - window and the sample is
\* strictly greater than each of the window samples before and after it; valleys
\* symmetrically with strictly smaller; a tie disqualifies.  Hence a series
\* shorter than 2*window + 1 yields two empty lists and one of length exactly
\* 2*window + 1 at most one extremum, at index window.
C5_PeakIffStrictWindowMax ==
    pc = "done" =>
        LET w == args.window
            n == Len(df)
            interior(i) == w <= i /\ i < n - w
            higher(i) == \A j \in 1..w : /\ ~isna(At(df, i)) /\ ~isna(At(df, i - j)) /\ ~isna(At(df, i + j))
                                         /\ At(df, i) > At(df, i - j) /\ At(df, i) > At(df, i + j)
            lower(i) == \A j \in 1..w : /\ ~isna(At(df, i)) /\ ~isna(At(df, i - j)) /\ ~isna(At(df, i + j))
                                        /\ At(df, i) < At(df, i - j) /\ At(df, i) < At(df, i + j)
        IN  /\ \A i \in 0..(n - 1) : (i \in Range(ret.peaks)) <=> (interior(i) /\ higher(i))
            /\ \A i \in 0..(n - 1) : (i \in Range(ret.valleys)) <=> (interior(i) /\ lower(i))
            /\ Range(ret.peaks) \subseteq 0..(n - 1)
            /\ Range(ret.valleys) \subseteq 0..(n - 1)
            /\ (n < 2 * w + 1 => ret.peaks = <<>> /\ ret.valleys = <<>>)
            /\ (n = 2 * w + 1 => /\ Len(ret.peaks) + Len(ret.valleys) <= 1
                                 /\ Range(ret.peaks) \cup Range(ret.valleys) \subseteq {w})

\* a series of length 2w+1 whose middle sample is the extremum, and one with a tie
C5_Witness ==
    /\ pc = "done"
    /\ args.window = 2
    /\ Len(df) = 5
    /\ ret.peaks = <<2>>
    /\ At(df, 1) = At(df, 3)

\* ------------------------------------------------- calculate_rsi_divergence

\* analysis_df = df.tail(min_data_needed + 20)
SliceBuffer == 20

RSI_COL == "RSI_14"

min_data_needed(a) == a.divergence_window + (2 * a.peak_valley_window * a.lookback_pivots)

\* mutant: .any() instead of .all()
isnull_all_MutAny(s) == \E k \in 1..Len(s) : isna(s[k])

\* series.isnull().all()
isnull_all(s) == \A k \in 1..Len(s) : isna(s[k])

\* mutant: the RSI pivot must lie strictly before the price pivot
RECURSIVE find_r_idx2_MutStrictlyBefore(_, _, _)
find_r_idx2_MutStrictlyBefore(rsi_idx, k, p_idx2) ==
    IF k = 0 THEN -1
    ELSE IF rsi_idx[k] < p_idx2 THEN rsi_idx[k]
         ELSE find_r_idx2_MutStrictlyBefore(rsi_idx, k - 1, p_idx2)

\* for r_idx in reversed(rsi_idx): if r_idx <= p_idx2: r_idx2 = r_idx; break   (else -1)
RECURSIVE find_r_idx2(_, _, _)
find_r_idx2(rsi_idx, k, p_idx2) ==
    IF k = 0 THEN -1
    ELSE IF rsi_idx[k] <= p_idx2 THEN rsi_idx[k]
         ELSE find_r_idx2(rsi_idx, k - 1, p_idx2)

\* for r_idx in reversed(rsi_idx): if r_idx <= p_idx1 and r_idx < r_idx2: r_idx1 = r_idx; break
RECURSIVE find_r_idx1_loop(_, _, _, _)
find_r_idx1_loop(rsi_idx, k, p_idx1, r_idx2) ==
    IF k = 0 THEN -1
    ELSE IF rsi_idx[k] <= p_idx1 /\ rsi_idx[k] < r_idx2 THEN rsi_idx[k]
         ELSE find_r_idx1_loop(rsi_idx, k - 1, p_idx1, r_idx2)

\* mutant: the first RSI pivot must lie strictly before the first price pivot
find_r_idx1_MutStrictlyBefore(rsi_idx, p_idx1, r_idx2) ==
    IF r_idx2 # -1 THEN find_r_idx1_loop(rsi_idx, Len(rsi_idx), p_idx1 - 1, r_idx2) ELSE -1

find_r_idx1(rsi_idx, p_idx1, r_idx2) ==
    IF r_idx2 # -1 THEN find_r_idx1_loop(rsi_idx, Len(rsi_idx), p_idx1, r_idx2) ELSE -1

\* mutant: the tolerance test alone, without the strict comparison after it
negative_condition_MutToleranceOnly(price1, price2, rsi1, rsi2, a) ==
    /\ price2 * 1000 > price1 * (1000 - a)
    /\ rsi2 * 1000 < rsi1 * (1000 + a)

\* Condition: Price HH, RSI LH, first with the tolerance a, then strictly.
\* a is kept in thousandths: x * (1 - a) is x * (1000 - a) / 1000.
negative_condition(price1, price2, rsi1, rsi2, a) ==
    /\ price2 * 1000 > price1 * (1000 - a)
    /\ rsi2 * 1000 < rsi1 * (1000 + a)
    /\ price2 > price1
    /\ rsi2 < rsi1

\* mutant: the tolerance test alone decides a bullish pair
positive_condition_MutToleranceOnly(price1, price2, rsi1, rsi2, a) ==
    /\ price2 * 1000 < price1 * (1000 + a)
    /\ rsi2 * 1000 > rsi1 * (1000 - a)

\* Condition: Price LL, RSI HL
positive_condition(price1, price2, rsi1, rsi2, a) ==
    /\ price2 * 1000 < price1 * (1000 + a)
    /\ rsi2 * 1000 > rsi1 * (1000 - a)
    /\ price2 < price1
    /\ rsi2 > rsi1

NoPair == [found |-> FALSE, p1 |-> -1, p2 |-> -1, r1 |-> -1, r2 |-> -1]

\* the pivots a candidate index i of the price pivot list selects
candidate(p_idx, r_idx, i, a) ==
    LET p2 == At(p_idx, i)
        p1 == At(p_idx, i - (a.lookback_pivots - 1))
        r2 == find_r_idx2(r_idx, Len(r_idx), p2)
        r1 == find_r_idx1(r_idx, p1, r2)
    IN  [p1 |-> p1, p2 |-> p2, r1 |-> r1, r2 |-> r2]

\* the comparison of the two pivots' values, by kind
pair_condition(kind, price, rsi, c, a) ==
    IF kind = "Negative"
    THEN negative_condition(At(price, c.p1), At(price, c.p2), At(rsi, c.r1), At(rsi, c.r2), a.a)
    ELSE positive_condition(At(price, c.p1), At(price, c.p2), At(rsi, c.r1), At(rsi, c.r2), a.a)

\* the test one candidate goes through, recency first
candidate_qualifies(kind, price, rsi, c, a) ==
    /\ ~((Len(price) - 1) - c.p2 > a.divergence_window)
    /\ c.p1 < c.p2 /\ c.r1 # -1 /\ c.r2 # -1 /\ c.r1 < c.r2
    /\ pair_condition(kind, price, rsi, c, a)

\* mutant: the candidates are tried from the oldest pair forward
RECURSIVE pivot_loop_forward(_, _, _, _, _, _, _, _)
pivot_loop_forward(kind, price, rsi, p_idx, r_idx, j, top, a) ==
    IF j > top THEN NoPair
    ELSE LET c == candidate(p_idx, r_idx, j, a)
         IN  IF candidate_qualifies(kind, price, rsi, c, a)
             THEN [found |-> TRUE, p1 |-> c.p1, p2 |-> c.p2, r1 |-> c.r1, r2 |-> c.r2]
             ELSE pivot_loop_forward(kind, price, rsi, p_idx, r_idx, j + 1, top, a)

pivot_loop_MutOldestFirst(kind, price, rsi, p_idx, r_idx, i, a) ==
    pivot_loop_forward(kind, price, rsi, p_idx, r_idx, a.lookback_pivots - 1, i, a)

\* for i in range(len(p_idx) - 1, lookback_pivots - 2, -1): ... return on the first qualifying pair
RECURSIVE pivot_loop(_, _, _, _, _, _, _)
pivot_loop(kind, price, rsi, p_idx, r_idx, i, a) ==
    IF i <= a.lookback_pivots - 2 THEN NoPair
    ELSE LET c == candidate(p_idx, r_idx, i, a)
         IN  IF candidate_qualifies(kind, price, rsi, c, a)
             THEN [found |-> TRUE, p1 |-> c.p1, p2 |-> c.p2, r1 |-> c.r1, r2 |-> c.r2]
             ELSE pivot_loop(kind, price, rsi, p_idx, r_idx, i - 1, a)

\* one of the two passes: guarded by the two pivot lists holding lookback_pivots entries
divergence_pass(kind, price, rsi, p_idx, r_idx, a) ==
    IF Len(p_idx) >= a.lookback_pivots /\ Len(r_idx) >= a.lookback_pivots
    THEN pivot_loop(kind, price, rsi, p_idx, r_idx, Len(p_idx) - 1, a)
    ELSE NoPair

Labelled(label, pair) == [label |-> label, pair |-> pair]

\* mutant: the valley pairs are examined before the peak pairs
calculate_rsi_divergence_MutValleysFirst(d, a) ==
    IF RSI_COL \notin d.columns \/ "close" \notin d.columns THEN Labelled("Data Missing", NoPair)
    ELSE IF Len(d.close) < min_data_needed(a) THEN Labelled("Not Enough Data", NoPair)
    ELSE LET price == Tail_n(d.close, min_data_needed(a) + SliceBuffer)
             rsi == Tail_n(d.rsi, min_data_needed(a) + SliceBuffer)
         IN  IF isnull_all(rsi) \/ isnull_all(price) THEN Labelled("RSI/Price Invalid", NoPair)
             ELSE LET pp == find_peaks_valleys(price, a.peak_valley_window)
                      rp == find_peaks_valleys(rsi, a.peak_valley_window)
                      pos == divergence_pass("Positive", price, rsi, pp.valleys, rp.valleys, a)
                  IN  IF pos.found THEN Labelled("Positive", pos)
                      ELSE LET neg == divergence_pass("Negative", price, rsi, pp.peaks, rp.peaks, a)
                           IN  IF neg.found THEN Labelled("Negative", neg)
                               ELSE Labelled("None", NoPair)

\* the label, and the pivots of the pair the log line reports with it
calculate_rsi_divergence(d, a) ==
    IF RSI_COL \notin d.columns \/ "close" \notin d.columns THEN Labelled("Data Missing", NoPair)
    ELSE IF Len(d.close) < min_data_needed(a) THEN Labelled("Not Enough Data", NoPair)
    ELSE LET price == Tail_n(d.close, min_data_needed(a) + SliceBuffer)
             rsi == Tail_n(d.rsi, min_data_needed(a) + SliceBuffer)
         IN  IF isnull_all(rsi) \/ isnull_all(price) THEN Labelled("RSI/Price Invalid", NoPair)
             ELSE LET pp == find_peaks_valleys(price, a.peak_valley_window)
                      rp == find_peaks_valleys(rsi, a.peak_valley_window)
                      neg == divergence_pass("Negative", price, rsi, pp.peaks, rp.peaks, a)
                  IN  IF neg.found THEN Labelled("Negative", neg)
                      ELSE LET pos == divergence_pass("Positive", price, rsi, pp.valleys, rp.valleys, a)
                           IN  IF pos.found THEN Labelled("Positive", pos)
                               ELSE Labelled("None", NoPair)

\* bounds of the divergence specification
MaxDivLen == 8
MinDivLen == MaxDivLen - 2
DivVals == {1, 2, 3}

\* series without two equal neighbours (every interior sample rises or falls).
\* With peak_valley_window = 1 the first and the last sample are never pivots
\* and are only compared with their one neighbour, so they are drawn from the
\* two extreme values.
Moving(L) == {s \in [1..L -> DivVals] :
                 /\ \A k \in 1..(L - 1) : s[k] # s[k + 1]
                 /\ s[1] \in {1, 3} /\ s[L] \in {1, 3}}

\* a four-valued saw-tooth: the samples of one parity at `base`, the samples
\* between them drawn from `tips` (a tip at either end, never a pivot, is fixed)
SawTooth(L, parity, base, tips, fixed) ==
    {s \in [1..L -> tips \cup {base}] :
        \A k \in 1..L : IF k % 2 = parity THEN s[k] = base
                        ELSE IF k \in {1, L} THEN s[k] = fixed ELSE s[k] \in tips}

\* rising or falling highs over a flat floor, and lows under a flat ceiling
SawTeeth(L) ==
    UNION {SawTooth(L, parity, 1, {2, 3, 4}, 2) \cup SawTooth(L, parity, 4, {1, 2, 3}, 3) :
              parity \in {0, 1}}

\* an RSI column whose first row is still missing
LeadingNaN(L) == {[s EXCEPT ![1] = NaN] : s \in {m \in Moving(L) : m[1] = 1}}

AllNaN(L) == [k \in 1..L |-> NaN]

DivArgs == [lookback_pivots : {2}, peak_valley_window : {1}, divergence_window : {3, 4}, a : {5}]

\* Series shorter than the longest fail the length test or carry no RSI.  The
\* longest series are drawn in full from the three values when they have just
\* the length the analysis needs, and from the saw-teeth when they are longer,
\* which is where a pivot pair can be too old.
InitDivergence ==
    /\ pc = "call"
    /\ args \in DivArgs
    /\ ret = NoRet
    /\ \E L \in MinDivLen..MaxDivLen :
          \/ df \in [columns : {{"close"}, {RSI_COL}, {}}, close : {AllNaN(L)}, rsi : {AllNaN(L)}]
          \/ /\ L < MaxDivLen
             /\ \E c \in Moving(L) : df = [columns |-> {"close", RSI_COL}, close |-> c, rsi |-> AllNaN(L)]
          \/ /\ L = MaxDivLen /\ L <= min_data_needed(args)
             /\ \E c \in Moving(L) \cup {AllNaN(L)} :
                \E r \in Moving(L) \cup LeadingNaN(L) \cup {AllNaN(L)} :
                   df = [columns |-> {"close", RSI_COL}, close |-> c, rsi |-> r]
          \/ /\ L = MaxDivLen /\ L > min_data_needed(args)
             /\ \E c \in SawTeeth(L) :
                \E r \in Moving(L) :
                   df = [columns |-> {"close", RSI_COL}, close |-> c, rsi |-> r]

CallRsiDivergence ==
    /\ pc = "call"
    /\ ret' = calculate_rsi_divergence(df, args)
    /\ pc' = "done"
    /\ UNCHANGED <<df, args>>

NextDivergence == CallRsiDivergence

SpecDivergence == InitDivergence /\ [][NextDivergence]_vars


\* the analysis slice of a column
Slice(col) == Tail_n(col, min_data_needed(args) + SliceBuffer)

HasColumns == RSI_COL \in df.columns /\ "close" \in df.columns

DivergenceWitness(kind, price, rsi, p1, p2, r1, r2) ==
    /\ p1 < p2 /\ r1 < r2
    /\ r1 <= p1 /\ r2 <= p2
    /\ (Len(price) - 1) - p2 <= args.divergence_window
    /\ IF kind = "Negative"
       THEN At(price, p2) > At(price, p1) /\ At(rsi, r2) < At(rsi, r1)
       ELSE At(price, p2) < At(price, p1) /\ At(rsi, r2) > At(rsi, r1)

HasDivergenceWitness(kind) ==
    LET price == Slice(df.close)
        rsi == Slice(df.rsi)
        pp == find_peaks_valleys(price, args.peak_valley_window)
        rp == find_peaks_valleys(rsi, args.peak_valley_window)
        P == IF kind = "Negative" THEN Range(pp.peaks) ELSE Range(pp.valleys)
        R == IF kind = "Negative" THEN Range(rp.peaks) ELSE Range(rp.valleys)
    IN  \E p1 \in P, p2 \in P, r1 \in R, r2 \in R :
            DivergenceWitness(kind, price, rsi, p1, p2, r1, r2)

\* C2: "Negative" is returned only if the slice holds two price peaks p1 < p2
\* and two RSI peaks r1 < r2 with r1 <= p1, r2 <= p2, p2 within divergence_window
\* of the slice end, a strictly higher price high and a strictly lower RSI high;
\* "Positive" only with the mirrored witness over valleys.
C2_LabelSound ==
    pc = "done" =>
        /\ (ret.label = "Negative" => HasDivergenceWitness("Negative"))
        /\ (ret.label = "Positive" => HasDivergenceWitness("Positive"))

C2_Witness ==
    /\ pc = "done"
    /\ ret.label = "Positive"
    /\ HasDivergenceWitness("Positive")
    /\ ~HasDivergenceWitness("Negative")

\* the slice has exactly two pivots of the kind in the price and in the RSI, and
\* they form a witness of that kind
ExactlyTwoPivotsDiverging(kind) ==
    LET price == Slice(df.close)
        rsi == Slice(df.rsi)
        pp == find_peaks_valleys(price, args.peak_valley_window)
        rp == find_peaks_valleys(rsi, args.peak_valley_window)
        P == IF kind = "Negative" THEN pp.peaks ELSE pp.valleys
        R == IF kind = "Negative" THEN rp.peaks ELSE rp.valleys
    IN  /\ Len(P) = 2 /\ Len(R) = 2
        /\ DivergenceWitness(kind, price, rsi, P[1], P[2], R[1], R[2])

\* C3: with lookback_pivots = 2, a series that passes the preconditions and
\* whose slice has exactly two price peaks and exactly two RSI peaks forming a
\* bearish witness is labelled "Negative"; the mirrored series over valleys
\* with no bearish witness is labelled "Positive".
C3_TwoPivotCaseComplete ==
    (pc = "done" /\ args.lookback_pivots = 2 /\ HasColumns
        /\ Len(df.close) >= min_data_needed(args)) =>
        /\ (ExactlyTwoPivotsDiverging("Negative") => ret.label = "Negative")
        /\ ((ExactlyTwoPivotsDiverging("Positive") /\ ~HasDivergenceWitness("Negative"))
               => ret.label = "Positive")

C3_Witness ==
    /\ pc = "done"
    /\ HasColumns /\ Len(df.close) >= min_data_needed(args)
    /\ ExactlyTwoPivotsDiverging("Negative")
    /\ ret.label = "Negative"
    /\ ret.pair.r2 < ret.pair.p2

\* the most recent price pivot of every candidate pair of the kind that passes
\* the recency, matching and comparison tests
Qualifying(kind) ==
    LET price == Slice(df.close)
        rsi == Slice(df.rsi)
        pp == find_peaks_valleys(price, args.peak_valley_window)
        rp == find_peaks_valleys(rsi, args.peak_valley_window)
        P == IF kind = "Negative" THEN pp.peaks ELSE pp.valleys
        R == IF kind = "Negative" THEN rp.peaks ELSE rp.valleys
    IN  IF Len(P) >= args.lookback_pivots /\ Len(R) >= args.lookback_pivots
        THEN {At(P, i) : i \in {j \in (args.lookback_pivots - 1)..(Len(P) - 1) :
                                   candidate_qualifies(kind, price, rsi, candidate(P, R, j, args), args)}}
        ELSE {}

Latest(S) == CHOOSE x \in S : \A y \in S : y <= x

Analysed == pc = "done" /\ ret.label \in {"None", "Negative", "Positive"}

\* C4 as stated: of all qualifying pairs, bearish and bullish together, the one
\* whose most recent pivot lies latest gives the label.
C4_MostRecentOfBothKinds ==
    Analysed =>
        LET N == Qualifying("Negative")
            B == Qualifying("Positive")
        IN  (N \cup B # {}) =>
               ret.label = (IF Latest(N \cup B) \in N THEN "Negative" ELSE "Positive")

\* C4 as amended: the peak pairs are examined first.  If a bearish pair
\* qualifies the label is "Negative" and the reported pair is the qualifying
\* peak pair with the latest pivot; otherwise, if a bullish pair qualifies, the
\* label is "Positive" with the latest qualifying valley pair; otherwise "None".
C4_MostRecentWithinKind ==
    Analysed =>
        LET N == Qualifying("Negative")
            B == Qualifying("Positive")
        IN  /\ (N # {} => ret.label = "Negative" /\ ret.pair.p2 = Latest(N))
            /\ (N = {} /\ B # {} => ret.label = "Positive" /\ ret.pair.p2 = Latest(B))
            /\ (N = {} /\ B = {} => ret.label = "None")

\* two peak pairs qualify and the later one is reported
C4_Witness ==
    /\ Analysed
    /\ Cardinality(Qualifying("Negative")) >= 2
    /\ ret.label = "Negative"
    /\ ret.pair.p2 = Latest(Qualifying("Negative"))


\* ---------------------------------------------------------------------------
\* calculate_fibonacci_pivot_points
\* The pivot values are kept times 3000, which makes (high + low + close) / 3
\* and the coefficients 0.382, 0.618 and 1.000 whole numbers; the arithmetic is
\* exact.
\* ---------------------------------------------------------------------------

MaxPivotVal == 4
PivotVals == {NaN} \cup (1..MaxPivotVal)

\* mutant: the coefficients of the first and the second level are exchanged
calculate_fibonacci_pivot_points_MutSwapped(high, low, close) ==
    IF isna(high) \/ isna(low) \/ isna(close)
    THEN [P |-> None, S1 |-> None, R1 |-> None, S2 |-> None, R2 |-> None, S3 |-> None, R3 |-> None]
    ELSE LET P == 1000 * (high + low + close)
         IN  [P  |-> Some(P),
              S1 |-> Some(P - 1854 * (high - low)), R1 |-> Some(P + 1854 * (high - low)),
              S2 |-> Some(P - 1146 * (high - low)), R2 |-> Some(P + 1146 * (high - low)),
              S3 |-> Some(P - 3000 * (high - low)), R3 |-> Some(P + 3000 * (high - low))]

calculate_fibonacci_pivot_points(high, low, close) ==
    IF isna(high) \/ isna(low) \/ isna(close)
    THEN [P |-> None, S1 |-> None, R1 |-> None, S2 |-> None, R2 |-> None, S3 |-> None, R3 |-> None]
    ELSE LET P == 1000 * (high + low + close)
             R1 == P + 1146 * (high - low)
             S1 == P - 1146 * (high - low)
             R2 == P + 1854 * (high - low)
             S2 == P - 1854 * (high - low)
             R3 == P + 3000 * (high - low)
             S3 == P - 3000 * (high - low)
         IN  [P |-> Some(P), S1 |-> Some(S1), R1 |-> Some(R1), S2 |-> Some(S2),
              R2 |-> Some(R2), S3 |-> Some(S3), R3 |-> Some(R3)]

InitPivot ==
    /\ pc = "call"
    /\ df = <<>>
    /\ args \in [high : PivotVals, low : PivotVals, close : PivotVals]
    /\ ret = NoRet

CallFibonacciPivotPoints ==
    /\ pc = "call"
    /\ ret' = calculate_fibonacci_pivot_points(args.high, args.low, args.close)
    /\ pc' = "done"
    /\ UNCHANGED <<df, args>>

NextPivot == CallFibonacciPivotPoints

SpecPivot == InitPivot /\ [][NextPivot]_vars

PivotKeys == {"P", "S1", "R1", "S2", "R2", "S3", "R3"}

PivotOf(k) ==
    CASE k = "P" -> ret.P [] k = "S1" -> ret.S1 [] k = "R1" -> ret.R1 [] k = "S2" -> ret.S2
      [] k = "R2" -> ret.R2 [] k = "S3" -> ret.S3 [] k = "R3" -> ret.R3

\* C9: with H, L and C all numbers, P = (H + L + C) / 3, R_k = P + c_k (H - L)
\* and S_k = P - c_k (H - L) for c = (0.382, 0.618, 1.0), so S_k and R_k are
\* symmetric about P; S3 < S2 < S1 < P < R1 < R2 < R3 whenever H > L; all seven
\* equal P when H = L; with any of H, L, C NaN all seven outputs are None.
C9_PivotFormulasAndOrder ==
    pc = "done" =>
        LET H == args.high
            L == args.low
            C == args.close
        IN  IF isna(H) \/ isna(L) \/ isna(C)
            THEN \A k \in PivotKeys : PivotOf(k) = None
            ELSE /\ \A k \in PivotKeys : PivotOf(k) # None
                 /\ LET P == ret.P[1]
                        R1 == ret.R1[1]
                        R2 == ret.R2[1]
                        R3 == ret.R3[1]
                        S1 == ret.S1[1]
                        S2 == ret.S2[1]
                        S3 == ret.S3[1]
                    IN  /\ 3 * P = 3000 * (H + L + C)
                        /\ 1000 * (R1 - P) = 382 * 3000 * (H - L)
                        /\ 1000 * (R2 - P) = 618 * 3000 * (H - L)
                        /\ R3 - P = 3000 * (H - L)
                        /\ R1 - P = P - S1 /\ R2 - P = P - S2 /\ R3 - P = P - S3
                        /\ (H > L => S3 < S2 /\ S2 < S1 /\ S1 < P /\ P < R1 /\ R1 < R2 /\ R2 < R3)
                        /\ (H = L => \A k \in PivotKeys : PivotOf(k) = Some(P))

C9_Witness ==
    /\ pc = "done"
    /\ ~isna(args.close) /\ ~isna(args.low) /\ Gt(args.high, args.low)
    /\ ret.P # None
    /\ ret.S3[1] < ret.S2[1] /\ ret.R2[1] < ret.R3[1]
    /\ ret.R1[1] - ret.P[1] = 1146 * (args.high - args.low)


\* ---------------------------------------------------------------------------
\* calculate_fibonacci_levels
\* A candle is its high and its low; a candle without data has NaN in both.
\* The levels are kept times 1000.
\* ---------------------------------------------------------------------------

MaxFibLen == 4
MaxFibLookback == 3
FibVals == 1..4

Candles == {c \in [high : FibVals, low : FibVals] : c.low <= c.high}
NoDataCandle == [high |-> NaN, low |-> NaN]

\* Series.max() and Series.min(): NaN entries are skipped, NaN when nothing is left
series_max(s) ==
    LET V == {s[k] : k \in 1..Len(s)} \ {NaN}
    IN  IF V = {} THEN NaN ELSE CHOOSE x \in V : \A y \in V : y <= x

series_min(s) ==
    LET V == {s[k] : k \in 1..Len(s)} \ {NaN}
    IN  IF V = {} THEN NaN ELSE CHOOSE x \in V : \A y \in V : x <= y

column_high(d) == [k \in 1..Len(d) |-> d[k].high]
column_low(d) == [k \in 1..Len(d) |-> d[k].low]

\* mutant: the whole history instead of its tail
relevant_df_MutWholeHistory(d, lookback_period) == d

\* relevant_df = df.tail(lookback_period)
relevant_df(d, lookback_period) == Tail_n(d, lookback_period)

fib_levels_of(period_high, period_low) ==
    LET diff == period_high - period_low
    IN  ("0.0%" :> 1000 * period_high)
        @@ ("23.6%" :> 1000 * period_high - diff * 236)
        @@ ("38.2%" :> 1000 * period_high - diff * 382)
        @@ ("50.0%" :> 1000 * period_high - diff * 500)
        @@ ("61.8%" :> 1000 * period_high - diff * 618)
        @@ ("78.6%" :> 1000 * period_high - diff * 786)
        @@ ("100.0%" :> 1000 * period_low)

\* mutant: a series shorter than the lookback still reports its high and low
calculate_fibonacci_levels_MutReportsShort(d, lookback_period) ==
    LET relevant == relevant_df(d, lookback_period)
        period_high == series_max(column_high(relevant))
        period_low == series_min(column_low(relevant))
    IN  IF Len(d) < lookback_period \/ isna(period_high) \/ isna(period_low) \/ period_high = period_low
        THEN [fib_high |-> Some(period_high), fib_low |-> Some(period_low), fib_levels |-> None]
        ELSE [fib_high |-> Some(period_high), fib_low |-> Some(period_low),
              fib_levels |-> Some(fib_levels_of(period_high, period_low))]

calculate_fibonacci_levels(d, lookback_period) ==
    IF Len(d) < lookback_period
    THEN [fib_high |-> None, fib_low |-> None, fib_levels |-> None]
    ELSE LET relevant == relevant_df(d, lookback_period)
             period_high == series_max(column_high(relevant))
             period_low == series_min(column_low(relevant))
         IN  IF isna(period_high) \/ isna(period_low) \/ period_high = period_low
             THEN [fib_high |-> Some(period_high), fib_low |-> Some(period_low), fib_levels |-> None]
             ELSE [fib_high |-> Some(period_high), fib_low |-> Some(period_low),
                   fib_levels |-> Some(fib_levels_of(period_high, period_low))]

InitFib ==
    /\ pc = "call"
    /\ df \in SeqsOf(Candles \cup {NoDataCandle}, 0, MaxFibLen)
    /\ args \in [lookback_period : 1..MaxFibLookback]
    /\ ret = NoRet

CallFibonacciLevels ==
    /\ pc = "call"
    /\ ret' = calculate_fibonacci_levels(df, args.lookback_period)
    /\ pc' = "done"
    /\ UNCHANGED <<df, args>>

NextFib == CallFibonacciLevels

SpecFib == InitFib /\ [][NextFib]_vars

\* the candles of the trailing lookback window that carry data, by position
Trailing == {k \in 1..Len(df) : k > Len(df) - args.lookback_period}
TrailingHighs == {df[k].high : k \in Trailing} \ {NaN}
TrailingLows == {df[k].low : k \in Trailing} \ {NaN}
Greatest(S) == CHOOSE x \in S : \A y \in S : y <= x
Least(S) == CHOOSE x \in S : \A y \in S : x <= y

FibRatios == <<<<"0.0%", 0>>, <<"23.6%", 236>>, <<"38.2%", 382>>, <<"50.0%", 500>>,
               <<"61.8%", 618>>, <<"78.6%", 786>>, <<"100.0%", 1000>>>>

\* C7: when levels are produced, high is the greatest high and low the least
\* low of the trailing lookback_period candles only; the level of every label
\* r is high - (high - low) * r / 100, with "0.0%" at high and "100.0%" at low;
\* the seven levels fall strictly in label order and lie between low and high.
C7_FibLevelsFromTrailingWindow ==
    (pc = "done" /\ ret.fib_levels # None) =>
        LET lv == ret.fib_levels[1]
            H == Greatest(TrailingHighs)
            L == Least(TrailingLows)
        IN  /\ TrailingHighs # {} /\ TrailingLows # {}
            /\ ret.fib_high = Some(H) /\ ret.fib_low = Some(L)
            /\ DOMAIN lv = {FibRatios[j][1] : j \in 1..Len(FibRatios)}
            /\ lv["0.0%"] = 1000 * H /\ lv["100.0%"] = 1000 * L
            /\ \A j \in 1..Len(FibRatios) :
                  /\ lv[FibRatios[j][1]] = 1000 * H - (H - L) * FibRatios[j][2]
                  /\ 1000 * L <= lv[FibRatios[j][1]] /\ lv[FibRatios[j][1]] <= 1000 * H
            /\ \A j \in 1..(Len(FibRatios) - 1) : lv[FibRatios[j][1]] > lv[FibRatios[j + 1][1]]

\* levels were produced although an older candle reaches above the window's high
C7_Witness ==
    /\ pc = "done"
    /\ ret.fib_levels # None
    /\ Len(df) > args.lookback_period
    /\ \E k \in 1..Len(df) : k \notin Trailing /\ Gt(df[k].high, ret.fib_high[1])
    /\ \E k \in 1..Len(df) : k \notin Trailing /\ Lt(df[k].low, ret.fib_low[1])

MaxVolLen == 5
VolPeriods == {2, 4}
VolVals == {-20, 0, 19, 20, 21, 40}
threshold == 5
epsilon == 1

RECURSIVE SeqSum(_)
SeqSum(s) == IF s = <<>> THEN 0 ELSE s[1] + SeqSum(Tail(s))

\* if (y <= 0).any(): y = np.maximum(y, 0.000001)
clamp_for_regression(y) ==
    IF \E k \in 1..Len(y) : y[k] <= 0
    THEN [k \in 1..Len(y) |-> IF y[k] > epsilon THEN y[k] ELSE epsilon]
    ELSE y

\* the sign-carrying numerator of the least-squares slope of y over x = 0..n-1
polyfit_slope_num(y) ==
    LET n == Len(y)
        sx == SeqSum([k \in 1..n |-> k - 1])
        sy == SeqSum(y)
        sxy == SeqSum([k \in 1..n |-> (k - 1) * y[k]])
    IN  n * sxy - sx * sy

\* mutant: exactly threshold per cent still counts as flat
classify_trend_MutInclusive(pct_num, pct_den) ==
    IF Abs(pct_num) <= threshold * Abs(pct_den) THEN "flat"
    ELSE IF (pct_num > 0 /\ pct_den > 0) \/ (pct_num < 0 /\ pct_den < 0) THEN "increasing"
    ELSE "decreasing"

\* if abs(pct_change) < threshold: flat; elif pct_change > 0: increasing; else: decreasing
classify_trend(pct_num, pct_den) ==
    IF Abs(pct_num) < threshold * Abs(pct_den) THEN "flat"
    ELSE IF (pct_num > 0 /\ pct_den > 0) \/ (pct_num < 0 /\ pct_den < 0) THEN "increasing"
    ELSE "decreasing"

calculate_volume_trend(d, period) ==
    IF Len(d) = 0 \/ Len(d) < period
    THEN [trend |-> "insufficient_data", pct_num |-> 0, pct_den |-> 1, slope |-> 0]
    ELSE LET recent_df == Tail_n(d, period)
             y == clamp_for_regression(recent_df)
             slope == polyfit_slope_num(y)
             first_volume == recent_df[1]
             end_volume == recent_df[Len(recent_df)]
             start_volume == IF first_volume = 0 THEN epsilon ELSE first_volume
             pct_num == (end_volume - start_volume) * 100
         IN  [trend |-> classify_trend(pct_num, start_volume),
              pct_num |-> pct_num, pct_den |-> start_volume, slope |-> slope]

InitVolumeTrend ==
    /\ pc = "call"
    /\ df \in SeqsOf(VolVals, 0, MaxVolLen)
    /\ args \in [period : VolPeriods]
    /\ ret = NoRet

CallVolumeTrend ==
    /\ pc = "call"
    /\ ret' = calculate_volume_trend(df, args.period)
    /\ pc' = "done"
    /\ UNCHANGED <<df, args>>

NextVolumeTrend == CallVolumeTrend

SpecVolumeTrend == InitVolumeTrend /\ [][NextVolumeTrend]_vars

\* the first and the last volume of the trailing window, the first one as the
\* division uses it
WindowStart ==
    LET v == df[Len(df) - args.period + 1] IN IF v = 0 THEN epsilon ELSE v
WindowEnd == df[Len(df)]

\* 100 * (e - s) / s >= k and <= k, without the division
PctAtLeast(e, s, k) == IF s > 0 THEN 100 * (e - s) >= k * s ELSE 100 * (e - s) <= k * s
PctAtMost(e, s, k) == IF s > 0 THEN 100 * (e - s) <= k * s ELSE 100 * (e - s) >= k * s

\* C10: insufficient_data iff the series is shorter than period; otherwise, with
\* pct_change = (end - start) / start * 100 over the first and last volume of
\* the trailing window, flat iff |pct_change| < 5, increasing iff
\* pct_change >= 5, decreasing iff pct_change <= -5: the label depends on
\* neither the regression slope nor the samples between the two.
C10_TrendFromPctChangeAlone ==
    pc = "done" =>
        /\ (ret.trend = "insufficient_data" <=> Len(df) < args.period)
        /\ (Len(df) >= args.period =>
              LET s == WindowStart
                  e == WindowEnd
              IN  /\ ret.trend \in {"flat", "increasing", "decreasing"}
                  /\ (ret.trend = "flat" <=> (~PctAtLeast(e, s, 5) /\ ~PctAtMost(e, s, -5)))
                  /\ (ret.trend = "increasing" <=> PctAtLeast(e, s, 5))
                  /\ (ret.trend = "decreasing" <=> PctAtMost(e, s, -5)))

\* a rise of exactly five per cent over a window whose regression line falls
C10_Witness ==
    /\ pc = "done"
    /\ args.period = 4 /\ Len(df) > args.period
    /\ WindowStart = 20 /\ WindowEnd = 21
    /\ ret.slope < 0
    /\ ret.trend = "increasing"


\* ---------------------------------------------------------------------------
\* calculate_technical_indicators followed by extract_latest_indicators
\* Of the candles only their number matters to the columns the pipeline adds,
\* and whether the last FIB_LOOKBACK_PERIOD candles span a price range.
\* ---------------------------------------------------------------------------

MaxCandles == 201

RSI_PERIOD == 14
MACD_SLOW_PERIOD == 50
SMA_SHORT_PERIOD == 100
SMA_LONG_PERIOD == 200
EMA_SHORT_PERIOD == 13
EMA_LONG_PERIOD == 50
ATR_PERIOD == 14
BBANDS_LENGTH == 20

KlinesColumns == {"open", "high", "low", "close", "volume"}

\* snapshot key, column read for it, history the indicator needs
Indicators ==
    { <<"rsi", "RSI_14", RSI_PERIOD>>,
      <<"macd", "MACD_21_50_9", MACD_SLOW_PERIOD>>,
      <<"sma_100", "SMA_100", SMA_SHORT_PERIOD>>,
      <<"sma_200", "SMA_200", SMA_LONG_PERIOD>>,
      <<"ema_13", "EMA_13", EMA_SHORT_PERIOD>>,
      <<"ema_50", "EMA_50", EMA_LONG_PERIOD>>,
      <<"atr_14", "ATRr_14", ATR_PERIOD>>,
      <<"bb_middle", "BBM_20_2.0", BBANDS_LENGTH>> }

SetMax(S) == CHOOSE x \in S : \A y \in S : y <= x

\* mutant: the shortest period gates the pipeline
min_len_for_indicators_MutShortest ==
    CHOOSE x \in {RSI_PERIOD, MACD_SLOW_PERIOD, SMA_LONG_PERIOD, EMA_LONG_PERIOD, ATR_PERIOD, BBANDS_LENGTH} :
        \A y \in {RSI_PERIOD, MACD_SLOW_PERIOD, SMA_LONG_PERIOD, EMA_LONG_PERIOD, ATR_PERIOD, BBANDS_LENGTH} : x <= y

min_len_for_indicators ==
    SetMax({RSI_PERIOD, MACD_SLOW_PERIOD, SMA_LONG_PERIOD, EMA_LONG_PERIOD, ATR_PERIOD, BBANDS_LENGTH, 1})

TaColumns == {"RSI_14", "MACD_21_50_9", "MACDh_21_50_9", "MACDs_21_50_9", "SMA_100", "SMA_200",
              "EMA_13", "EMA_50", "ATRr_14", "BBL_20_2.0", "BBM_20_2.0", "BBU_20_2.0"}
PivotColumns == {"P", "S1", "R1", "S2", "R2", "S3", "R3"}
FibColumns == {"Fib_High", "Fib_Low", "Fib_Levels_Str"}
FibLevelColumns == {"Fib_0_0pct", "Fib_23_6pct", "Fib_38_2pct", "Fib_50_0pct", "Fib_61_8pct",
                    "Fib_78_6pct", "Fib_100_0pct"}
VolumeColumns == {"Volume_Trend", "Volume_Trend_Pct_Change",
                  "volume_ma_20", "volume_ma_50", "volume_ma_100",
                  "volume_vs_ma_20", "volume_vs_ma_50", "volume_vs_ma_100",
                  "PriceVolume_correlation", "PriceVolume_interpretation", "PriceVolume_strength",
                  "PriceVolume_is_confirming", "PriceVolume_up_volume_avg", "PriceVolume_down_volume_avg",
                  "VolumeAnomaly_anomaly_detected", "VolumeAnomaly_type", "VolumeAnomaly_current_volume",
                  "VolumeAnomaly_baseline_mean", "VolumeAnomaly_baseline_std", "VolumeAnomaly_z_score",
                  "VolumeAnomaly_deviation_percent", "VolumeAnomaly_recent_anomalies"}

\* the frame comes back as it went in when it is shorter than the longest
\* period; otherwise every column is appended to it
calculate_technical_indicators(d) ==
    IF d.len = 0 \/ d.len < min_len_for_indicators
    THEN d
    ELSE [d EXCEPT !.columns = @ \cup TaColumns \cup PivotColumns \cup {"RSI_Divergence"}
                                  \cup FibColumns \cup (IF d.flat THEN {} ELSE FibLevelColumns)
                                  \cup VolumeColumns]

\* the last row of an appended indicator column: a number once the frame holds
\* the indicator's period, NaN before
last_value(d, period) == IF d.len >= period THEN "value" ELSE "NaN"

\* latest.get(column): None for a column the frame does not have
latest_get(d, column, period) ==
    IF column \in d.columns THEN last_value(d, period) ELSE "None"

\* mutant: the empty frame is read like any other
extract_latest_indicators_MutNoEmptyGuard(d) ==
    [k \in {i[1] : i \in Indicators} |->
        LET i == CHOOSE j \in Indicators : j[1] = k IN latest_get(d, i[2], i[3])]

extract_latest_indicators(d) ==
    IF d.len = 0 THEN [k \in {} |-> "None"]
    ELSE [k \in {i[1] : i \in Indicators} |->
             LET i == CHOOSE j \in Indicators : j[1] = k IN latest_get(d, i[2], i[3])]

InitIndicators ==
    /\ pc = "call"
    /\ df \in [len : 0..MaxCandles, flat : BOOLEAN, columns : {KlinesColumns}]
    /\ args = <<>>
    /\ ret = NoRet

CallCalculateTechnicalIndicators ==
    /\ pc = "call"
    /\ df' = calculate_technical_indicators(df)
    /\ pc' = "calculated"
    /\ UNCHANGED <<args, ret>>

CallExtractLatestIndicators ==
    /\ pc = "calculated"
    /\ ret' = extract_latest_indicators(df)
    /\ pc' = "done"
    /\ UNCHANGED <<df, args>>

NextIndicators == CallCalculateTechnicalIndicators \/ CallExtractLatestIndicators

SpecIndicators == InitIndicators /\ [][NextIndicators]_vars

\* dict.get on the snapshot
SnapshotValue(k) == IF k \in DOMAIN ret THEN ret[k] ELSE "None"

MaxMaLen == 4
MaxMaPeriod == 3
MaVals == {-2, 0, 1, 3}

\* mutant: the mean of the whole column instead of the rolling window's last value
rolling_mean_last_MutWholeColumn(volume, period) == [sum |-> SeqSum(volume), n |-> period]

\* df[volume_col].rolling(window=period).mean().iloc[-1], for len(df) >= period
rolling_mean_last(volume, period) == [sum |-> SeqSum(Tail_n(volume, period)), n |-> period]

ma_key(period) == <<"volume_ma", period>>
vs_ma_key(period) == <<"volume_vs_ma", period>>

\* the first loop: None for a period the frame does not cover, the mean otherwise
volume_ma_entries(volume, periods) ==
    [k \in {ma_key(p) : p \in periods} |->
        IF Len(volume) < k[2] THEN None ELSE Some(rolling_mean_last(volume, k[2]))]

\* the second loop: (current_volume / ma) * 100 where the mean is there and > 0
volume_vs_ma_entries(volume, periods, result) ==
    LET current_volume == volume[Len(volume)]
    IN  [k \in {vs_ma_key(p) : p \in periods} |->
            LET ma == result[ma_key(k[2])]
            IN  IF ma # None /\ ma[1].sum > 0
                THEN Some([num |-> current_volume * 100 * ma[1].n, den |-> ma[1].sum])
                ELSE None]

calculate_volume_moving_averages(volume, periods) ==
    IF Len(volume) = 0
    THEN [k \in {ma_key(p) : p \in periods} |-> None]
    ELSE LET result == volume_ma_entries(volume, periods)
         IN  result @@ volume_vs_ma_entries(volume, periods, result)

InitVolumeMa ==
    /\ pc = "call"
    /\ df \in SeqsOf(MaVals, 0, MaxMaLen)
    /\ args \in [periods : (SUBSET (1..MaxMaPeriod)) \ {{}}]
    /\ ret = NoRet

CallVolumeMovingAverages ==
    /\ pc = "call"
    /\ ret' = calculate_volume_moving_averages(df, args.periods)
    /\ pc' = "done"
    /\ UNCHANGED <<df, args>>

NextVolumeMa == CallVolumeMovingAverages

SpecVolumeMa == InitVolumeMa /\ [][NextVolumeMa]_vars

\* the sum of the last p volumes, by position
LastSum(p) ==
    LET pos == {k \in 1..Len(df) : k > Len(df) - p}
        f[S \in SUBSET pos] == IF S = {} THEN 0
                               ELSE LET k == CHOOSE x \in S : TRUE IN df[k] + f[S \ {k}]
    IN  f[pos]

\* the entries of period p as the claim words them
MaEntriesRight(p) ==
    /\ ma_key(p) \in DOMAIN ret /\ vs_ma_key(p) \in DOMAIN ret
    /\ (ret[ma_key(p)] = None <=> Len(df) < p)
    /\ (Len(df) >= p =>
          LET ma == ret[ma_key(p)][1]
          IN  /\ ma.n = p /\ ma.sum = LastSum(p)
              /\ IF LastSum(p) > 0
                 THEN /\ ret[vs_ma_key(p)] # None
                      /\ ret[vs_ma_key(p)][1].num * LastSum(p)
                            = df[Len(df)] * 100 * p * ret[vs_ma_key(p)][1].den
                      /\ ret[vs_ma_key(p)][1].den # 0
                 ELSE ret[vs_ma_key(p)] = None)
    /\ (Len(df) < p => ret[vs_ma_key(p)] = None)

\* C11: for every requested period p the moving-average entry is None iff the
\* series is shorter than p and is otherwise the mean of the last p volumes; the
\* current-vs-MA entry is current_volume / ma * 100 when the mean is defined and
\* positive and None otherwise; both entries exist for every requested period
\* on every input, the empty series included.
C11_BothEntriesOnEveryInput ==
    pc = "done" => \A p \in args.periods : MaEntriesRight(p)

\* C11 as amended: the above on every series that is not empty; on the empty
\* series only the moving-average entries exist, all None, and there is no
\* current-vs-MA entry at all.
C11_EntriesPerPeriod ==
    pc = "done" =>
        IF Len(df) = 0
        THEN /\ DOMAIN ret = {ma_key(p) : p \in args.periods}
             /\ \A p \in args.periods : ret[ma_key(p)] = None
        ELSE /\ DOMAIN ret = {ma_key(p) : p \in args.periods} \cup {vs_ma_key(p) : p \in args.periods}
             /\ \A p \in args.periods : MaEntriesRight(p)

\* a period beyond the history next to one within it, whose mean is over the
\* tail only
C11_Witness ==
    /\ pc = "done"
    /\ \E p \in args.periods, q \in args.periods :
          /\ Len(df) < q /\ ret[ma_key(q)] = None
          /\ p < Len(df) /\ ret[ma_key(p)] # None
          /\ ret[ma_key(p)][1].sum # SeqSum(df)
          /\ ret[vs_ma_key(p)] # None


\* ---------------------------------------------------------------------------
\* analyze_price_volume_relationship
\* A row is a close and a volume.  The closes are powers of two, so that four
\* times a row's pct_change is a whole number; the correlation does not change
\* under that scaling.  Volumes are whole numbers of 0.000001, the clip's lower
\* limit being 1.  The Pearson correlation r of n pairs is kept as the three
\* whole numbers cov = n*Sxy - Sx*Sy, vx = n*Sxx - Sx*Sx, vy = n*Syy - Sy*Sy
\* (r = cov / sqrt(vx * vy), which is NaN when a variance is zero, as it is with
\* fewer than two pairs), and comparisons of r with a decimal are made on squares.
\* ---------------------------------------------------------------------------

MaxPvLen == 4
PvLookbacks == {2, 3, 4}
PvCloses == {1, 2, 4}
PvVolumes == {0, 2, 6}
clip_lower == 1

\* four times pct_change of the rows 2..n of the window (row 1 has none: NaN)
price_change_x4(close) == [k \in 1..(Len(close) - 1) |-> (4 * (close[k + 1] - close[k])) \div close[k]]

\* recent_df[volume_col].clip(lower=0.000001)
clip_volume(volume) == [k \in 1..Len(volume) |-> IF volume[k] < clip_lower THEN clip_lower ELSE volume[k]]

\* Series.corr over the rows where both series have a value
pearson_corr(x, y) ==
    LET n == Len(x)
        sx == SeqSum(x)
        sy == SeqSum(y)
        cov == n * SeqSum([k \in 1..n |-> x[k] * y[k]]) - sx * sy
        vx == n * SeqSum([k \in 1..n |-> x[k] * x[k]]) - sx * sx
        vy == n * SeqSum([k \in 1..n |-> y[k] * y[k]]) - sy * sy
    IN  [cov |-> cov, vx |-> vx, vy |-> vy]

\* pd.isna(correlation)
corr_isna(r) == r.vx = 0 \/ r.vy = 0

\* abs(r) < num / 10 and r > num / 10, for 0 <= num
corr_abs_lt(r, num) == 100 * r.cov * r.cov < num * num * r.vx * r.vy
corr_gt(r, num) == r.cov > 0 /\ 100 * r.cov * r.cov > num * num * r.vx * r.vy

\* Series.mean() of the selected volumes, 0 when none is selected
mean_or_zero(vals) == IF Len(vals) = 0 THEN [sum |-> 0, n |-> 1] ELSE [sum |-> SeqSum(vals), n |-> Len(vals)]

\* the volumes of the rows whose price change has the sign
RECURSIVE moves_volume(_, _, _, _)
moves_volume(change, volume, sign, k) ==
    IF k > Len(change) THEN <<>>
    ELSE IF (sign > 0 /\ change[k] > 0) \/ (sign < 0 /\ change[k] < 0)
         THEN <<volume[k + 1]>> \o moves_volume(change, volume, sign, k + 1)
         ELSE moves_volume(change, volume, sign, k + 1)

\* mutant: equal averages already confirm
is_confirming_of_MutInclusive(up_volume_avg, down_volume_avg) ==
    up_volume_avg.sum * down_volume_avg.n >= down_volume_avg.sum * up_volume_avg.n

\* is_confirming = up_volume_avg > down_volume_avg
is_confirming_of(up_volume_avg, down_volume_avg) ==
    up_volume_avg.sum * down_volume_avg.n > down_volume_avg.sum * up_volume_avg.n

strength_of(correlation) ==
    IF corr_abs_lt(correlation, 3) THEN "weak"
    ELSE IF corr_abs_lt(correlation, 7) THEN "moderate"
    ELSE "strong"

interpretation_of(correlation, is_confirming) ==
    IF corr_gt(correlation, 5) /\ is_confirming THEN "healthy_trend"
    ELSE IF corr_gt(correlation, 5) /\ ~is_confirming THEN "potential_trend_reversal"
    ELSE IF ~corr_gt(correlation, 5) /\ is_confirming THEN "inconsistent_confirmation"
    ELSE "indecisive_market"

analyze_price_volume_relationship(d, lookback_period) ==
    IF Len(d) = 0 \/ Len(d) < lookback_period
    THEN [correlation |-> None, interpretation |-> "insufficient_data",
          strength |-> None, is_confirming |-> None]
    ELSE LET recent_df == Tail_n(d, lookback_period)
             price_change == price_change_x4([k \in 1..Len(recent_df) |-> recent_df[k].close])
             price_change_abs == [k \in 1..Len(price_change) |-> Abs(price_change[k])]
             volume == clip_volume([k \in 1..Len(recent_df) |-> recent_df[k].volume])
             correlation == pearson_corr(price_change_abs, Tail(volume))
             up_volume_avg == mean_or_zero(moves_volume(price_change, volume, 1, 1))
             down_volume_avg == mean_or_zero(moves_volume(price_change, volume, -1, 1))
             is_confirming == is_confirming_of(up_volume_avg, down_volume_avg)
         IN  [correlation |-> Some(correlation),
              interpretation |-> IF corr_isna(correlation) THEN "unknown"
                                 ELSE interpretation_of(correlation, is_confirming),
              strength |-> IF corr_isna(correlation) THEN None ELSE Some(strength_of(correlation)),
              is_confirming |-> Some(is_confirming),
              up_volume_avg |-> up_volume_avg,
              down_volume_avg |-> down_volume_avg]

InitPriceVolume ==
    /\ pc = "call"
    /\ df \in SeqsOf([close : PvCloses, volume : PvVolumes], 0, MaxPvLen)
    /\ args \in [lookback_period : PvLookbacks]
    /\ ret = NoRet

CallPriceVolumeRelationship ==
    /\ pc = "call"
    /\ ret' = analyze_price_volume_relationship(df, args.lookback_period)
    /\ pc' = "done"
    /\ UNCHANGED <<df, args>>

NextPriceVolume == CallPriceVolumeRelationship

SpecPriceVolume == InitPriceVolume /\ [][NextPriceVolume]_vars

\* the rows of the trailing window after its first, by position, split by the
\* direction of the close, and the sum of their clipped volumes
PvRows == {k \in 2..Len(df) : k > Len(df) - args.lookback_period + 1}
UpRows == {k \in PvRows : df[k].close > df[k - 1].close}
DownRows == {k \in PvRows : df[k].close < df[k - 1].close}
ClippedSum(S) ==
    LET f[T \in SUBSET S] ==
            IF T = {} THEN 0
            ELSE LET k == CHOOSE x \in T : TRUE
                 IN  (IF df[k].volume < 1 THEN 1 ELSE df[k].volume) + f[T \ {k}]
    IN  f[S]

\* mean volume of the up-moves > mean volume of the down-moves (a mean of no
\* rows counting as 0)
UpMeanGreater ==
    ClippedSum(UpRows) * (IF DownRows = {} THEN 1 ELSE Cardinality(DownRows))
        > ClippedSum(DownRows) * (IF UpRows = {} THEN 1 ELSE Cardinality(UpRows))

CorrDefined ==
    /\ pc = "done" /\ ret.correlation # None
    /\ ret.correlation[1].vx # 0 /\ ret.correlation[1].vy # 0

\* C12: whenever the correlation is defined, is_confirming iff the mean volume
\* of the up-moves is strictly greater than that of the down-moves; strength is
\* weak iff |corr| < 0.3, moderate iff 0.3 <= |corr| < 0.7, strong iff
\* |corr| >= 0.7; interpretation is healthy_trend iff corr > 0.5 and confirming,
\* potential_trend_reversal iff corr > 0.5 and not confirming,
\* inconsistent_confirmation iff corr <= 0.5 and confirming, indecisive_market
\* otherwise; exactly one interpretation applies, and neither healthy_trend nor
\* potential_trend_reversal comes with strength weak.
C12_StrengthAndInterpretation ==
    CorrDefined =>
        LET r == ret.correlation[1]
            sq == 100 * r.cov * r.cov
            vv == r.vx * r.vy
            above_half == r.cov > 0 /\ sq > 25 * vv
            confirming == ret.is_confirming = Some(TRUE)
        IN  /\ ret.is_confirming \in {Some(TRUE), Some(FALSE)}
            /\ confirming <=> UpMeanGreater
            /\ ret.strength \in {Some("weak"), Some("moderate"), Some("strong")}
            /\ (ret.strength = Some("weak") <=> sq < 9 * vv)
            /\ (ret.strength = Some("moderate") <=> (sq >= 9 * vv /\ sq < 49 * vv))
            /\ (ret.strength = Some("strong") <=> sq >= 49 * vv)
            /\ ret.interpretation \in {"healthy_trend", "potential_trend_reversal",
                                       "inconsistent_confirmation", "indecisive_market"}
            /\ (ret.interpretation = "healthy_trend" <=> (above_half /\ confirming))
            /\ (ret.interpretation = "potential_trend_reversal" <=> (above_half /\ ~confirming))
            /\ (ret.interpretation = "inconsistent_confirmation" <=> (~above_half /\ confirming))
            /\ (ret.interpretation = "indecisive_market" <=> (~above_half /\ ~confirming))
            /\ (ret.interpretation \in {"healthy_trend", "potential_trend_reversal"}
                   => ret.strength # Some("weak"))

\* up-moves and down-moves of equal mean volume under a moderate correlation
C12_Witness ==
    /\ CorrDefined
    /\ UpRows # {} /\ DownRows # {}
    /\ ClippedSum(UpRows) * Cardinality(DownRows) = ClippedSum(DownRows) * Cardinality(UpRows)
    /\ ret.is_confirming = Some(FALSE)
    /\ ret.strength = Some("moderate")
    /\ ret.interpretation = "potential_trend_reversal"


\* ---------------------------------------------------------------------------
\* detect_volume_anomalies
\* Volumes are whole numbers of 0.000001, the value put in place of a zero
\* standard deviation being 1.  With S the sum, SS the sum of squares and n the
\* number of the baseline volumes, the mean is S / n and the (sample) standard
\* deviation sqrt(q / (n * (n - 1))) for q = n * SS - S * S; it is NaN for a
\* baseline of fewer than two rows.  A z-score (x - mean) / std is kept as
\* dev = n * x - S together with n and q, and compared on squares.
\* ---------------------------------------------------------------------------

MaxAnomalyLen == 4
\* the runs 0,1,2 and 5,6,7 with what lies two and five deviations off their means
AnomalyVolumes == {0, 1, 2, 3, 5, 6, 7, 11}
AnomalyLookbacks == {2, 3}
default_threshold == 2
recent_rows == 5

\* mutant: the current candle is part of its own baseline
baseline_of_MutIncludesCurrent(volume, lookback_period) ==
    SubSeq(volume, IF Len(volume) - lookback_period + 1 < 1 THEN 1
                   ELSE Len(volume) - lookback_period + 1, Len(volume))

\* mutant: every candle before the current one is in the baseline
baseline_of_MutWholeHistory(volume, lookback_period) == SubSeq(volume, 1, Len(volume) - 1)

\* df.iloc[-(lookback_period+1):-1]: a start before the first row means the first row
baseline_of(volume, lookback_period) ==
    SubSeq(volume, IF Len(volume) - lookback_period < 1 THEN 1
                   ELSE Len(volume) - lookback_period, Len(volume) - 1)

\* (x - baseline_mean) / baseline_std
z_score_of(x, baseline) ==
    LET n == Len(baseline)
        S == SeqSum(baseline)
        SS == SeqSum([k \in 1..n |-> baseline[k] * baseline[k]])
    IN  [dev |-> n * x - S, n |-> n, q |-> n * SS - S * S]

\* no standard deviation of fewer than two rows, hence no z-score
z_isnan(z) == z.n < 2

\* mutant: a z-score equal to the threshold is an anomaly already
abs_z_gt_MutInclusive(z, t) ==
    IF z_isnan(z) THEN FALSE
    ELSE IF z.q = 0 THEN Abs(z.dev) >= t * z.n * epsilon
    ELSE (z.n - 1) * z.dev * z.dev >= t * t * z.n * z.q

\* abs(z) > t, the standard deviation being epsilon where it is zero
abs_z_gt(z, t) ==
    IF z_isnan(z) THEN FALSE
    ELSE IF z.q = 0 THEN Abs(z.dev) > t * z.n * epsilon
    ELSE (z.n - 1) * z.dev * z.dev > t * t * z.n * z.q

\* (abs(rolling_z.tail(5)) > threshold).sum()
RECURSIVE count_anomalies(_, _, _)
count_anomalies(rows, baseline, t) ==
    IF rows = <<>> THEN 0
    ELSE (IF abs_z_gt(z_score_of(rows[1], baseline), t) THEN 1 ELSE 0)
         + count_anomalies(Tail(rows), baseline, t)

detect_volume_anomalies(volume, lookback_period, t) ==
    IF Len(volume) = 0 \/ Len(volume) < lookback_period
    THEN [anomaly_detected |-> None, type |-> None, current_volume |-> None,
          baseline_mean |-> None, baseline_std |-> None, z_score |-> None]
    ELSE LET baseline == baseline_of(volume, lookback_period)
             current_volume == volume[Len(volume)]
             z_score == z_score_of(current_volume, baseline)
             anomaly_detected == abs_z_gt(z_score, t)
         IN  [anomaly_detected |-> Some(anomaly_detected),
              type |-> Some(IF anomaly_detected
                            THEN (IF ~z_isnan(z_score) /\ z_score.dev > 0 THEN "spike" ELSE "drop")
                            ELSE "none"),
              current_volume |-> Some(current_volume),
              baseline_mean |-> Some([sum |-> SeqSum(baseline), n |-> Len(baseline)]),
              baseline_std |-> Some([q |-> z_score.q, n |-> z_score.n]),
              z_score |-> Some(z_score),
              deviation_percent |-> [num |-> 100 * z_score.dev, den |-> SeqSum(baseline)],
              recent_anomalies |-> count_anomalies(Tail_n(volume, recent_rows), baseline, t)]

InitAnomaly ==
    /\ pc = "call"
    /\ df \in SeqsOf(AnomalyVolumes, 0, MaxAnomalyLen)
    /\ args \in [lookback_period : AnomalyLookbacks, threshold : {default_threshold}]
    /\ ret = NoRet

CallDetectVolumeAnomalies ==
    /\ pc = "call"
    /\ ret' = detect_volume_anomalies(df, args.lookback_period, args.threshold)
    /\ pc' = "done"
    /\ UNCHANGED <<df, args>>

NextAnomaly == CallDetectVolumeAnomalies

SpecAnomaly == InitAnomaly /\ [][NextAnomaly]_vars

\* the baseline by position: the lookback_period rows before the last one, as
\* far as the series has them
BaseRows == {k \in 1..(Len(df) - 1) : k >= Len(df) - args.lookback_period}
BaseN == Cardinality(BaseRows)
SumOver(S, g(_)) ==
    LET f[T \in SUBSET S] == IF T = {} THEN 0
                             ELSE LET k == CHOOSE x \in T : TRUE IN g(df[k]) + f[T \ {k}]
    IN  f[S]
Ident(x) == x
Square(x) == x * x
BaseSum == SumOver(BaseRows, Ident)
BaseQ == BaseN * SumOver(BaseRows, Square) - BaseSum * BaseSum

Accepted == pc = "done" /\ Len(df) > 0 /\ Len(df) >= args.lookback_period

\* z > t and z < -t for the current volume, z = (current - mean) / std with a
\* zero std replaced by epsilon; false of a z that is NaN
ZAbove(t) ==
    LET dev == BaseN * df[Len(df)] - BaseSum
    IN  /\ BaseN >= 2 /\ dev > 0
        /\ IF BaseQ = 0 THEN dev > t * BaseN
           ELSE (BaseN - 1) * dev * dev > t * t * BaseN * BaseQ
ZBelow(t) ==
    LET dev == BaseN * df[Len(df)] - BaseSum
    IN  /\ BaseN >= 2 /\ dev < 0
        /\ IF BaseQ = 0 THEN -dev > t * BaseN
           ELSE (BaseN - 1) * dev * dev > t * t * BaseN * BaseQ

\* C13: anomaly_detected iff |z| > threshold, strictly; when detected the type
\* is spike iff z > 0 and drop otherwise; the type is none iff nothing is
\* detected: type = spike iff z > threshold, type = drop iff z < -threshold.
C13_AnomalyDecisionRule ==
    Accepted =>
        /\ ret.anomaly_detected \in {Some(TRUE), Some(FALSE)}
        /\ (ret.anomaly_detected = Some(TRUE) <=> (ZAbove(args.threshold) \/ ZBelow(args.threshold)))
        /\ (ret.type = Some("spike") <=> ZAbove(args.threshold))
        /\ (ret.type = Some("drop") <=> ZBelow(args.threshold))
        /\ (ret.type = Some("none") <=> ret.anomaly_detected = Some(FALSE))

\* a current volume exactly threshold standard deviations above the mean
C13_Witness ==
    /\ Accepted
    /\ BaseN >= 2 /\ BaseQ > 0
    /\ BaseN * df[Len(df)] > BaseSum
    /\ (BaseN - 1) * (BaseN * df[Len(df)] - BaseSum) * (BaseN * df[Len(df)] - BaseSum)
          = args.threshold * args.threshold * BaseN * BaseQ
    /\ ret.anomaly_detected = Some(FALSE) /\ ret.type = Some("none")

\* the baseline's standard deviation is the whole number d
StdIs(d) == BaseN >= 2 /\ d * d * BaseN * (BaseN - 1) = BaseQ

\* the last candle's volume is baseline_mean + 5 * std, is max(0, mean - 5 * std)
SpikeInjected(d) == BaseN * df[Len(df)] = BaseSum + 5 * BaseN * d
DropInjected(d) ==
    IF BaseSum - 5 * BaseN * d <= 0 THEN df[Len(df)] = 0
    ELSE BaseN * df[Len(df)] = BaseSum - 5 * BaseN * d

\* C14: for every accepted baseline, a last volume of baseline_mean + 5 * std
\* is detected as a spike, and one of max(0, baseline_mean - 5 * std) as a drop.
C14_InjectedAnomalyDetected ==
    (Accepted /\ args.threshold = default_threshold) =>
        \A d \in 0..SetMax(AnomalyVolumes) :
            StdIs(d) =>
                /\ (SpikeInjected(d) => (ret.anomaly_detected = Some(TRUE) /\ ret.type = Some("spike")))
                /\ (DropInjected(d) => ret.type = Some("drop"))

\* C14 as amended: over a baseline whose std is positive, baseline_mean + 5 * std
\* is detected as a spike, and max(0, baseline_mean - 5 * std) is detected as a
\* drop iff baseline_mean > threshold * std (the clamp at 0 can leave the volume
\* within threshold standard deviations of the mean); over a flat baseline
\* (std = 0) both values are the mean itself and nothing is detected.
C14_InjectedAnomaly ==
    (Accepted /\ args.threshold = default_threshold) =>
        \A d \in 0..SetMax(AnomalyVolumes) :
            StdIs(d) =>
                /\ ((d > 0 /\ SpikeInjected(d))
                        => (ret.anomaly_detected = Some(TRUE) /\ ret.type = Some("spike")))
                /\ ((d > 0 /\ DropInjected(d))
                        => (ret.type = Some("drop") <=> BaseSum > default_threshold * BaseN * d))
                /\ ((d = 0 /\ (SpikeInjected(d) \/ DropInjected(d)))
                        => (ret.anomaly_detected = Some(FALSE) /\ ret.type = Some("none")))

\* a spike of five standard deviations over a baseline that varies
C14_Witness ==
    /\ Accepted
    /\ \E d \in 1..SetMax(AnomalyVolumes) : StdIs(d) /\ SpikeInjected(d)
    /\ ret.type = Some("spike")


\* ---------------------------------------------------------------------------
\* compare_volume_across_timeframes
\* timeframe_dfs is a dict, kept in insertion order as a sequence of labelled
\* frames; the result is a dict of dicts, a function from the labels to
\* functions on the keys each entry holds.  Fractions are num / den pairs.
\* ---------------------------------------------------------------------------

MaxTimeframes == 3
min_candles == 20
ma_window == 20
trend_period == 10

TimeframeLabels == <<"15m", "1h", "4h", "1d", "1w">>

\* a frame of L volumes: `base` throughout, `last` in the final candle
Profile(L, base, last) == [k \in 1..L |-> IF k = L THEN last ELSE base]

TimeframeFrames ==
    {<<>>} \cup {Profile(L, s[1], s[2]) :
                    L \in {min_candles - 1, min_candles, min_candles + 1},
                    s \in {<<0, 0>>, <<0, 20>>, <<20, 20>>, <<20, 40>>}}

insufficient_metrics ==
    ("volume_trend" :> "insufficient_data") @@ ("trend_pct_change" :> None)
    @@ ("volume_ma_20" :> None) @@ ("current_volume" :> None) @@ ("current_vs_ma" :> None)

\* mutant: a frame needs more than the minimum number of candles
timeframe_metrics_MutOffByOne(d) ==
    IF Len(d) = 0 \/ Len(d) <= min_candles
    THEN insufficient_metrics
    ELSE LET volume_ma_20 == rolling_mean_last(d, ma_window)
             trend == calculate_volume_trend(d, trend_period)
         IN  ("volume_trend" :> trend.trend)
             @@ ("trend_pct_change" :> Some([num |-> trend.pct_num, den |-> trend.pct_den]))
             @@ ("volume_ma_20" :> Some(volume_ma_20))
             @@ ("current_volume" :> Some(d[Len(d)]))
             @@ ("current_vs_ma" :> IF volume_ma_20.sum > 0
                                    THEN Some([num |-> d[Len(d)] * 100 * volume_ma_20.n,
                                               den |-> volume_ma_20.sum])
                                    ELSE None)

\* the body of the loop over timeframe_dfs.items()
timeframe_metrics(d) ==
    IF Len(d) = 0 \/ Len(d) < min_candles
    THEN insufficient_metrics
    ELSE LET current_volume == d[Len(d)]
             volume_ma_20 == rolling_mean_last(d, ma_window)
             trend == calculate_volume_trend(d, trend_period)
         IN  ("volume_trend" :> trend.trend)
             @@ ("trend_pct_change" :> Some([num |-> trend.pct_num, den |-> trend.pct_den]))
             @@ ("volume_ma_20" :> Some(volume_ma_20))
             @@ ("current_volume" :> Some(current_volume))
             @@ ("current_vs_ma" :> IF volume_ma_20.sum > 0
                                    THEN Some([num |-> current_volume * 100 * volume_ma_20.n,
                                               den |-> volume_ma_20.sum])
                                    ELSE None)

\* mutant: the first timeframe is the base of the normalization
highest_tf_MutFirst(timeframe_dfs) == timeframe_dfs[1].label

\* highest_tf = list(result.keys())[-1]
highest_tf(timeframe_dfs) == timeframe_dfs[Len(timeframe_dfs)].label

\* result[timeframe]["volume_ma_20"] / base_volume, None without a mean or a positive base
normalized_volume_of(entry, base_volume) ==
    IF entry["volume_ma_20"] # None /\ base_volume.sum > 0
    THEN Some([num |-> entry["volume_ma_20"][1].sum * base_volume.n,
               den |-> entry["volume_ma_20"][1].n * base_volume.sum])
    ELSE None

compare_volume_across_timeframes(timeframe_dfs, normalize) ==
    IF Len(timeframe_dfs) = 0 THEN [l \in {} |-> insufficient_metrics]
    ELSE LET labels == {timeframe_dfs[k].label : k \in 1..Len(timeframe_dfs)}
             frame(l) == (CHOOSE k \in 1..Len(timeframe_dfs) : timeframe_dfs[k].label = l)
             result == [l \in labels |-> timeframe_metrics(timeframe_dfs[frame(l)].df)]
         IN  IF normalize /\ Cardinality(labels) > 1
                /\ result[highest_tf(timeframe_dfs)]["volume_ma_20"] # None
             THEN LET base_volume == result[highest_tf(timeframe_dfs)]["volume_ma_20"][1]
                  IN  [l \in labels |->
                          result[l] @@ ("normalized_volume" :> normalized_volume_of(result[l], base_volume))]
             ELSE result

InitTimeframes ==
    /\ pc = "call"
    /\ \E n \in 0..MaxTimeframes :
          \E frames \in [1..n -> TimeframeFrames] :
             df = [k \in 1..n |-> [label |-> TimeframeLabels[k], df |-> frames[k]]]
    /\ args \in [normalize : BOOLEAN]
    /\ ret = NoRet

CallCompareVolumeAcrossTimeframes ==
    /\ pc = "call"
    /\ ret' = compare_volume_across_timeframes(df, args.normalize)
    /\ pc' = "done"
    /\ UNCHANGED <<df, args>>

NextTimeframes == CallCompareVolumeAcrossTimeframes

SpecTimeframes == InitTimeframes /\ [][NextTimeframes]_vars

\* a timeframe's entry carries a normalized value
HasNormalized(k) ==
    /\ "normalized_volume" \in DOMAIN ret[df[k].label]
    /\ ret[df[k].label]["normalized_volume"] # None

Sufficient(k) == Len(df[k].df) >= 20

\* the entry of timeframe k but for "normalized_volume"
Metrics(k) == [key \in DOMAIN ret[df[k].label] \ {"normalized_volume"} |-> ret[df[k].label][key]]

\* what the timeframe yields when it is compared on its own
Alone(k) == compare_volume_across_timeframes(<<df[k]>>, args.normalize)[df[k].label]

\* C15: the output has exactly the input's labels; a timeframe of fewer than 20
\* candles reports insufficient_data and no metric; a timeframe of at least 20
\* candles has its trend, MA20 and current-vs-MA as if it were alone, whatever
\* the others hold; a timeframe of fewer than 20 candles gets no normalized
\* value and, being the longest, gives none to the others.
C15_InsufficiencyContained ==
    pc = "done" =>
        /\ DOMAIN ret = {df[k].label : k \in 1..Len(df)}
        /\ \A k \in 1..Len(df) :
              /\ ~Sufficient(k) =>
                    /\ Metrics(k) = insufficient_metrics
                    /\ ~HasNormalized(k)
                    /\ (k = Len(df) => \A j \in 1..Len(df) : ~HasNormalized(j))
              /\ Sufficient(k) =>
                    /\ Metrics(k) = Alone(k)
                    /\ ret[df[k].label]["volume_trend"] \in {"flat", "increasing", "decreasing"}
                    /\ ret[df[k].label]["volume_ma_20"] # None
                    /\ ret[df[k].label]["current_volume"] = Some(df[k].df[Len(df[k].df)])

\* a short timeframe between two that are long enough and compared
C15_Witness ==
    /\ pc = "done"
    /\ Len(df) = 3
    /\ Len(df[1].df) = 20 /\ Len(df[2].df) = 19 /\ Len(df[3].df) = 21
    /\ ret[df[2].label]["volume_trend"] = "insufficient_data"
    /\ ret[df[1].label]["volume_trend"] = "increasing"
    /\ HasNormalized(1) /\ HasNormalized(3) /\ ~HasNormalized(2)

\* the mean of the last 20 volumes of timeframe k, as sum and count
Ma20Sum(k) ==
    LET d == df[k].df
        f[j \in 0..20] == IF j = 0 THEN 0 ELSE d[Len(d) - j + 1] + f[j - 1]
    IN  f[20]

\* the entry of timeframe k holds own MA20 / MA20 of the last timeframe
NormalizedIsRatio(k) ==
    /\ HasNormalized(k)
    /\ LET v == ret[df[k].label]["normalized_volume"][1]
       IN  v.den # 0 /\ v.num * Ma20Sum(Len(df)) = v.den * Ma20Sum(k)

NormalizedIsOne(k) ==
    /\ HasNormalized(k)
    /\ ret[df[k].label]["normalized_volume"][1].num = ret[df[k].label]["normalized_volume"][1].den

\* C16: every timeframe of the output carries normalized_volume = own MA20 /
\* MA20 of the longest (last) timeframe, None only when that baseline is
\* unavailable; the longest timeframe's own value is 1.0, and with one volume
\* profile in every timeframe all values are 1.0.
C16_EveryTimeframeNormalized ==
    (pc = "done" /\ args.normalize /\ Len(df) > 0) =>
        LET base_available == Sufficient(Len(df)) /\ Ma20Sum(Len(df)) > 0
        IN  /\ \A k \in 1..Len(df) :
                  /\ "normalized_volume" \in DOMAIN ret[df[k].label]
                  /\ IF base_available THEN NormalizedIsRatio(k) ELSE ~HasNormalized(k)
            /\ (base_available => NormalizedIsOne(Len(df)))
            /\ ((base_available /\ \A k \in 1..Len(df) : df[k].df = df[1].df)
                    => \A k \in 1..Len(df) : NormalizedIsOne(k))

\* C16 as amended: normalized values exist only when normalization is asked
\* for, at least two timeframes are compared and the last one has its MA20
\* (at least 20 candles); then every timeframe's entry holds the key, with own
\* MA20 / MA20 of the last timeframe when it has an MA20 of its own and the
\* base is positive, and None otherwise; the last timeframe's own value is then
\* 1.0, and so are all values when every timeframe has the same profile.  In
\* every other case no entry holds the key.
C16_NormalizedAgainstLast ==
    pc = "done" =>
        LET compared == args.normalize /\ Len(df) > 1 /\ Sufficient(Len(df))
        IN  \A k \in 1..Len(df) :
               IF compared
               THEN /\ "normalized_volume" \in DOMAIN ret[df[k].label]
                    /\ IF Sufficient(k) /\ Ma20Sum(Len(df)) > 0
                       THEN /\ NormalizedIsRatio(k)
                            /\ (k = Len(df) => NormalizedIsOne(k))
                            /\ (df[k].df = df[Len(df)].df => NormalizedIsOne(k))
                       ELSE ret[df[k].label]["normalized_volume"] = None
               ELSE "normalized_volume" \notin DOMAIN ret[df[k].label]

\* three timeframes, the first with a smaller mean volume than the last and
\* the second too short to have one
C16_Witness ==
    /\ pc = "done" /\ args.normalize
    /\ Len(df) = 3
    /\ NormalizedIsRatio(1) /\ NormalizedIsOne(3)
    /\ ret[df[1].label]["normalized_volume"][1].num < ret[df[1].label]["normalized_volume"][1].den
    /\ ret[df[2].label]["normalized_volume"] = None


\* ---------------------------------------------------------------------------
\* The caller's frame across a call of an analysis function
\* df is the frame the caller passes, as in the indicator pipeline: its number
\* of rows, whether high = low throughout, and its columns.  ret is the frame
\* the function builds for itself and writes to, if it builds one.
\* ---------------------------------------------------------------------------

default_lookback_period == 20

default_divergence_args ==
    [lookback_pivots |-> 2, peak_valley_window |-> 3, divergence_window |-> 30, a |-> 5]

AnalysisFunctions ==
    {"calculate_technical_indicators", "calculate_rsi_divergence", "calculate_fibonacci_levels",
     "calculate_volume_trend", "calculate_volume_moving_averages",
     "analyze_price_volume_relationship", "detect_volume_anomalies",
     "compare_volume_across_timeframes"}

\* df.tail(n).copy(): a new frame of the last n rows
tail_copy(d, n) == [d EXCEPT !.len = IF d.len <= n THEN d.len ELSE n]

\* calculate_rsi_divergence: analysis_df, re-indexed in place
analysis_df_of(d) ==
    IF RSI_COL \notin d.columns \/ "close" \notin d.columns THEN None
    ELSE IF d.len < min_data_needed(default_divergence_args) THEN None
    ELSE Some(tail_copy(d, min_data_needed(default_divergence_args) + SliceBuffer))

\* analyze_price_volume_relationship: recent_df, given two columns and a
\* clipped volume column
recent_df_of(d) ==
    IF d.len = 0 \/ d.len < default_lookback_period THEN None
    ELSE Some([tail_copy(d, default_lookback_period)
                  EXCEPT !.columns = @ \cup {"price_change", "price_change_abs"}])

\* mutant: analyze_price_volume_relationship works on the caller's frame
caller_frame_after_MutNoCopy(fn, d) ==
    IF fn = "calculate_technical_indicators" THEN calculate_technical_indicators(d)
    ELSE IF fn = "analyze_price_volume_relationship" /\ recent_df_of(d) # None
         THEN [d EXCEPT !.columns = @ \cup {"price_change", "price_change_abs"}]
         ELSE d

\* the caller's frame after the call: calculate_technical_indicators appends
\* to the frame it is given and returns it, the others assign to no frame but
\* their own copy
caller_frame_after(fn, d) ==
    IF fn = "calculate_technical_indicators" THEN calculate_technical_indicators(d) ELSE d

\* the frame the function writes to
written_frame(fn, d) ==
    CASE fn = "calculate_technical_indicators" -> Some(calculate_technical_indicators(d))
      [] fn = "calculate_rsi_divergence" -> analysis_df_of(d)
      [] fn = "analyze_price_volume_relationship" -> recent_df_of(d)
      [] OTHER -> None

InitFrame ==
    /\ pc = "call"
    /\ \E n \in 0..MaxCandles, f \in BOOLEAN, c \in {KlinesColumns, KlinesColumns \cup {RSI_COL}} :
          df = [len |-> n, flat |-> f, columns |-> c]
    /\ args \in [fn : AnalysisFunctions]
    /\ ret = NoRet

CallOn(fn) ==
    /\ pc = "call"
    /\ args.fn = fn
    /\ df' = caller_frame_after(fn, df)
    /\ ret' = written_frame(fn, df)
    /\ pc' = "done"
    /\ UNCHANGED args

FrameCalculateTechnicalIndicators == CallOn("calculate_technical_indicators")
FrameCalculateRsiDivergence == CallOn("calculate_rsi_divergence")
FrameCalculateFibonacciLevels == CallOn("calculate_fibonacci_levels")
FrameCalculateVolumeTrend == CallOn("calculate_volume_trend")
FrameCalculateVolumeMovingAverages == CallOn("calculate_volume_moving_averages")
FrameAnalyzePriceVolumeRelationship == CallOn("analyze_price_volume_relationship")
FrameDetectVolumeAnomalies == CallOn("detect_volume_anomalies")
FrameCompareVolumeAcrossTimeframes == CallOn("compare_volume_across_timeframes")

NextFrame ==
    \/ FrameCalculateTechnicalIndicators
    \/ FrameCalculateRsiDivergence
    \/ FrameCalculateFibonacciLevels
    \/ FrameCalculateVolumeTrend
    \/ FrameCalculateVolumeMovingAverages
    \/ FrameAnalyzePriceVolumeRelationship
    \/ FrameDetectVolumeAnomalies
    \/ FrameCompareVolumeAcrossTimeframes

SpecFrame == InitFrame /\ [][NextFrame]_vars

MaxKlines == 3

NUMERIC_KLINES_COLUMNS == <<"open", "high", "low", "close", "volume">>

KlineTimes == {1, 2}
NumericStrings == {"7", "12"}
Unparsable == "n/a"

\* a raw row whose numeric fields all read v, but for the column `bad`
RawRow(t, v, bad) ==
    [open_time |-> t,
     open   |-> IF bad = "open"   THEN Unparsable ELSE v,
     high   |-> IF bad = "high"   THEN Unparsable ELSE v,
     low    |-> IF bad = "low"    THEN Unparsable ELSE v,
     close  |-> IF bad = "close"  THEN Unparsable ELSE v,
     volume |-> IF bad = "volume" THEN Unparsable ELSE v]

RawRows ==
    {RawRow(t, v, bad) : t \in KlineTimes, v \in NumericStrings,
                         bad \in {"none"} \cup Range(NUMERIC_KLINES_COLUMNS)}

\* pd.to_numeric on one string: the number it spells
parses(s) == s \in NumericStrings
to_numeric_value(s) == IF s = "7" THEN 7 ELSE 12

\* pd.to_numeric(df[col]) with errors='raise': one unparsable string in the
\* column raises ValueError for the column
column_raises(klines, col) == \E k \in 1..Len(klines) : ~parses(klines[k][col])

to_numeric_row(row) ==
    [open_time |-> row.open_time,
     open |-> to_numeric_value(row.open), high |-> to_numeric_value(row.high),
     low |-> to_numeric_value(row.low), close |-> to_numeric_value(row.close),
     volume |-> to_numeric_value(row.volume)]

\* the frame of the rows in the order given, every numeric column converted;
\* the ValueError of a column leaves the function
preprocess_klines_df(klines) ==
    IF \E c \in 1..Len(NUMERIC_KLINES_COLUMNS) : column_raises(klines, NUMERIC_KLINES_COLUMNS[c])
    THEN [raised |-> "ValueError", df |-> <<>>]
    ELSE [raised |-> "no", df |-> [k \in 1..Len(klines) |-> to_numeric_row(klines[k])]]

InitKlines ==
    /\ pc = "call"
    /\ df \in SeqsOf(RawRows, 0, MaxKlines)
    /\ args = <<>>
    /\ ret = NoRet

CallPreprocessKlinesDf ==
    /\ pc = "call"
    /\ ret' = preprocess_klines_df(df)
    /\ pc' = "done"
    /\ UNCHANGED <<df, args>>

NextKlines == CallPreprocessKlinesDf

SpecKlines == InitKlines /\ [][NextKlines]_vars

WellFormed(row) == \A c \in 1..Len(NUMERIC_KLINES_COLUMNS) : parses(row[NUMERIC_KLINES_COLUMNS[c]])

\* the well-formed rows of the input, converted, in input order
WellFormedRows ==
    LET f[k \in 0..Len(df)] ==
            IF k = 0 THEN <<>>
            ELSE IF WellFormed(df[k]) THEN Append(f[k - 1], to_numeric_row(df[k])) ELSE f[k - 1]
    IN  f[Len(df)]

\* C18: when some raw rows have a numeric field that cannot be parsed, the
\* conversion does not abort; exactly those rows are missing from the series
\* returned (their number is the difference of the lengths) and every
\* well-formed row is kept.
C18_MalformedRowsDropped ==
    pc = "done" =>
        /\ ret.raised = "no"
        /\ ret.df = WellFormedRows

\* C19: the series returned for any sequence of raw rows is ascending by
\* open_time, rows of equal open_time in their input order.
C19_SortedByOpenTimeStable ==
    (pc = "done" /\ ret.raised = "no") =>
        /\ \A i, j \in 1..Len(ret.df) : i < j => ret.df[i].open_time <= ret.df[j].open_time
        /\ \A i, j \in 1..Len(df) :
              (i < j /\ df[i].open_time = df[j].open_time) =>
                  \E a, b \in 1..Len(ret.df) :
                      a < b /\ ret.df[a] = to_numeric_row(df[i]) /\ ret.df[b] = to_numeric_row(df[j])


\* ---------------------------------------------------------------------------
\* The core functions on an empty candle series
\* args.fn names the function the caller calls; df is its series in the form
\* the function's own section gives it, empty or of a candle or two.  Periods,
\* windows and lookbacks are positive, as their defaults are.
\* ---------------------------------------------------------------------------

CoreFunctions ==
    {"find_peaks_valleys", "calculate_rsi_divergence", "calculate_fibonacci_levels",
     "calculate_volume_trend", "calculate_volume_moving_averages",
     "analyze_price_volume_relationship", "detect_volume_anomalies",
     "extract_latest_indicators", "compare_volume_across_timeframes"}

InitCore ==
    /\ pc = "call"
    /\ ret = NoRet
    /\ \/ /\ df \in SeqsOf(ExtVals, 0, 2)
          /\ args \in [fn : {"find_peaks_valleys"}, window : 1..MaxWindow]
       \/ /\ \E L \in 0..2, c \in {{}, {"close"}, {"close", RSI_COL}} :
                df = [columns |-> c, close |-> AllNaN(L), rsi |-> AllNaN(L)]
          /\ args \in [fn : {"calculate_rsi_divergence"}, a : DivArgs]
       \/ /\ df \in SeqsOf(Candles, 0, 1)
          /\ args \in [fn : {"calculate_fibonacci_levels"}, lookback_period : 1..MaxFibLookback]
       \/ /\ df \in SeqsOf(VolVals, 0, 2)
          /\ args \in [fn : {"calculate_volume_trend"}, period : VolPeriods]
       \/ /\ df \in SeqsOf(MaVals, 0, 1)
          /\ args \in [fn : {"calculate_volume_moving_averages"},
                       periods : (SUBSET (1..MaxMaPeriod)) \ {{}}]
       \/ /\ df \in SeqsOf([close : PvCloses, volume : PvVolumes], 0, 2)
          /\ args \in [fn : {"analyze_price_volume_relationship"}, lookback_period : PvLookbacks]
       \/ /\ df \in SeqsOf(AnomalyVolumes, 0, 2)
          /\ args \in [fn : {"detect_volume_anomalies"}, lookback_period : AnomalyLookbacks,
                       threshold : {default_threshold}]
       \/ /\ \E n \in {0, 1, SMA_LONG_PERIOD}, f \in BOOLEAN, c \in {KlinesColumns, KlinesColumns \cup TaColumns} :
                df = [len |-> n, flat |-> f, columns |-> c]
          /\ args \in [fn : {"extract_latest_indicators"}]
       \/ /\ \E n \in 1..2 :
                \E frames \in [1..n -> {<<>>, Profile(min_candles, 20, 40)}] :
                   df = [k \in 1..n |-> [label |-> TimeframeLabels[k], df |-> frames[k]]]
          /\ args \in [fn : {"compare_volume_across_timeframes"}, normalize : BOOLEAN]

Returns(fn, value) ==
    /\ pc = "call"
    /\ args.fn = fn
    /\ ret' = value
    /\ pc' = "done"
    /\ UNCHANGED <<df, args>>

CoreFindPeaksValleys ==
    args.fn = "find_peaks_valleys" /\ Returns("find_peaks_valleys", find_peaks_valleys(df, args.window))
CoreRsiDivergence ==
    args.fn = "calculate_rsi_divergence"
        /\ Returns("calculate_rsi_divergence", calculate_rsi_divergence(df, args.a))
CoreFibonacciLevels ==
    args.fn = "calculate_fibonacci_levels"
        /\ Returns("calculate_fibonacci_levels", calculate_fibonacci_levels(df, args.lookback_period))
CoreVolumeTrend ==
    args.fn = "calculate_volume_trend"
        /\ Returns("calculate_volume_trend", calculate_volume_trend(df, args.period))
CoreVolumeMovingAverages ==
    args.fn = "calculate_volume_moving_averages"
        /\ Returns("calculate_volume_moving_averages", calculate_volume_moving_averages(df, args.periods))
CorePriceVolumeRelationship ==
    args.fn = "analyze_price_volume_relationship"
        /\ Returns("analyze_price_volume_relationship",
                   analyze_price_volume_relationship(df, args.lookback_period))
CoreDetectVolumeAnomalies ==
    args.fn = "detect_volume_anomalies"
        /\ Returns("detect_volume_anomalies",
                   detect_volume_anomalies(df, args.lookback_period, args.threshold))
CoreExtractLatestIndicators ==
    args.fn = "extract_latest_indicators"
        /\ Returns("extract_latest_indicators", extract_latest_indicators(df))
CoreCompareVolumeAcrossTimeframes ==
    args.fn = "compare_volume_across_timeframes"
        /\ Returns("compare_volume_across_timeframes",
                   compare_volume_across_timeframes(df, args.normalize))

NextCore ==
    \/ CoreFindPeaksValleys
    \/ CoreRsiDivergence
    \/ CoreFibonacciLevels
    \/ CoreVolumeTrend
    \/ CoreVolumeMovingAverages
    \/ CorePriceVolumeRelationship
    \/ CoreDetectVolumeAnomalies
    \/ CoreExtractLatestIndicators
    \/ CoreCompareVolumeAcrossTimeframes

SpecCore == InitCore /\ [][NextCore]_vars

Returned(fn) == pc = "done" /\ args.fn = fn

\* C20: on an empty candle series every core function returns its
\* insufficient-data value: find_peaks_valleys two empty lists,
\* calculate_rsi_divergence a failure label, calculate_fibonacci_levels no
\* levels, calculate_volume_trend insufficient_data,
\* calculate_volume_moving_averages None values only,
\* analyze_price_volume_relationship insufficient_data, detect_volume_anomalies
\* a result of None fields, extract_latest_indicators an empty snapshot, and
\* compare_volume_across_timeframes insufficient_data for the empty timeframe.
C20_EmptyInputInsufficient ==
    /\ (Returned("find_peaks_valleys") /\ Len(df) = 0) =>
           ret = [peaks |-> <<>>, valleys |-> <<>>]
    /\ (Returned("calculate_rsi_divergence") /\ Len(df.close) = 0) =>
           ret.label \in {"Data Missing", "Not Enough Data"}
    /\ (Returned("calculate_fibonacci_levels") /\ Len(df) = 0) =>
           ret = [fib_high |-> None, fib_low |-> None, fib_levels |-> None]
    /\ (Returned("calculate_volume_trend") /\ Len(df) = 0) =>
           (ret.trend = "insufficient_data" /\ ret.pct_num = 0)
    /\ (Returned("calculate_volume_moving_averages") /\ Len(df) = 0) =>
           /\ \A p \in args.periods : ma_key(p) \in DOMAIN ret
           /\ \A k \in DOMAIN ret : ret[k] = None
    /\ (Returned("analyze_price_volume_relationship") /\ Len(df) = 0) =>
           (ret.interpretation = "insufficient_data" /\ ret.correlation = None
                /\ ret.strength = None /\ ret.is_confirming = None)
    /\ (Returned("detect_volume_anomalies") /\ Len(df) = 0) =>
           (ret.anomaly_detected = None /\ ret.type = None /\ ret.current_volume = None
                /\ ret.baseline_mean = None /\ ret.baseline_std = None /\ ret.z_score = None)
    /\ (Returned("extract_latest_indicators") /\ df.len = 0) =>
           DOMAIN ret = {}
    /\ Returned("compare_volume_across_timeframes") =>
           \A k \in 1..Len(df) :
               Len(df[k].df) = 0 =>
                   /\ df[k].label \in DOMAIN ret
                   /\ ret[df[k].label]["volume_trend"] = "insufficient_data"
                   /\ ret[df[k].label]["volume_ma_20"] = None

\* an empty frame has been given to extract_latest_indicators, and the
\* snapshot returned has no entry
C20_Witness ==
    /\ Returned("extract_latest_indicators")
    /\ df.len = 0
    /\ ret = [k \in {} |-> "None"]


\* ---------------------------------------------------------------------------
\* calculate_rsi_divergence: the candidate pairs, the tolerance and the order
\* of the two passes.  The series have just the length the analysis needs, so
\* the slice is the whole series; the tolerance is the default 0.5% or 50%.
\* ---------------------------------------------------------------------------

MaxPairLen == 8

PairSeries(L) == {s \in Moving(L) : s[1] = 1}

PairArgs == [lookback_pivots : {2}, peak_valley_window : {1},
             divergence_window : {MaxPairLen - 4}, a : {5, 500}]

InitPairs ==
    /\ pc = "call"
    /\ args \in PairArgs
    /\ ret = NoRet
    /\ \E c \in PairSeries(MaxPairLen), r \in PairSeries(MaxPairLen) :
          df = [columns |-> {"close", RSI_COL}, close |-> c, rsi |-> r]

CallRsiDivergenceOnPairs ==
    /\ pc = "call"
    /\ ret' = calculate_rsi_divergence(df, args)
    /\ pc' = "done"
    /\ UNCHANGED <<df, args>>

NextPairs == CallRsiDivergenceOnPairs

SpecPairs == InitPairs /\ [][NextPairs]_vars

\* the price and RSI pivot lists of a kind in the slice
PricePivots(kind) ==
    LET pp == find_peaks_valleys(Slice(df.close), args.peak_valley_window)
    IN  IF kind = "Negative" THEN pp.peaks ELSE pp.valleys

RsiPivots(kind) ==
    LET rp == find_peaks_valleys(Slice(df.rsi), args.peak_valley_window)
    IN  IF kind = "Negative" THEN rp.peaks ELSE rp.valleys

\* the candidate pairs of a kind the loop gets to match: both lists hold two
\* pivots and the later price pivot is recent enough
Examined(kind) ==
    LET P == PricePivots(kind)
        R == RsiPivots(kind)
    IN  IF Len(P) >= args.lookback_pivots /\ Len(R) >= args.lookback_pivots
        THEN {candidate(P, R, i, args) :
                 i \in {j \in (args.lookback_pivots - 1)..(Len(P) - 1) :
                          (Len(Slice(df.close)) - 1) - At(P, j) <= args.divergence_window}}
        ELSE {}

\* the greatest index of S that is <= p and < limit, -1 when there is none
NearestBefore(S, p, limit) ==
    LET B == {r \in S : r <= p /\ r < limit}
    IN  IF B = {} THEN -1 ELSE CHOOSE x \in B : \A y \in B : y <= x

Skipped(kind, c) == ~candidate_qualifies(kind, Slice(df.close), Slice(df.rsi), c, args)

\* C21: in every candidate pair examined, each of the two price pivots is
\* paired with the RSI pivot of its kind of greatest index at or before it, and
\* a price pivot without such an RSI pivot makes the pair be skipped.
C21_NearestBeforeForBothPivots ==
    pc = "done" =>
        \A kind \in {"Negative", "Positive"} :
            \A c \in Examined(kind) :
                /\ c.r2 = NearestBefore(Range(RsiPivots(kind)), c.p2, c.p2 + 1)
                /\ c.r1 = NearestBefore(Range(RsiPivots(kind)), c.p1, c.p1 + 1)
                /\ (c.r1 = -1 \/ c.r2 = -1) => Skipped(kind, c)

\* C21 as amended: the later price pivot is paired with the RSI pivot of
\* greatest index at or before it; the older price pivot with the RSI pivot of
\* greatest index that is at or before it and strictly before the RSI pivot of
\* the later one.  When one RSI pivot is the nearest before both price pivots,
\* the older price pivot gets the RSI pivot before that one.  A pair with a
\* price pivot left without an RSI pivot is skipped.
C21_OlderPivotBeforeLaterMatch ==
    pc = "done" =>
        \A kind \in {"Negative", "Positive"} :
            \A c \in Examined(kind) :
                /\ c.r2 = NearestBefore(Range(RsiPivots(kind)), c.p2, c.p2 + 1)
                /\ c.r1 = (IF c.r2 = -1 THEN -1
                           ELSE NearestBefore(Range(RsiPivots(kind)), c.p1, c.r2))
                /\ (c.r1 = -1 \/ c.r2 = -1) => Skipped(kind, c)

\* a bearish pair is reported whose older price peak got an RSI peak further
\* back than the nearest one, which is the RSI peak of the later price peak
C21_Witness ==
    /\ pc = "done"
    /\ ret.label = "Negative"
    /\ ret.pair.r2 = NearestBefore(Range(RsiPivots("Negative")), ret.pair.p1, ret.pair.p1 + 1)
    /\ ret.pair.r1 < ret.pair.r2

\* C22: the label returned with the tolerance a is the label returned with the
\* tolerance 0, that is by the strict comparisons alone.
C22_ToleranceNeverDecides ==
    pc = "done" => ret.label = calculate_rsi_divergence(df, [args EXCEPT !.a = 0]).label

\* a valley pair within the tolerance (equal lows, rising RSI lows) that the
\* strict comparison rejects: no divergence is reported
C22_Witness ==
    /\ pc = "done"
    /\ ret.label = "None"
    /\ \E c \in Examined("Positive") :
          /\ c.r1 # -1 /\ c.r2 # -1 /\ c.r1 < c.r2
          /\ At(df.close, c.p2) * 1000 < At(df.close, c.p1) * (1000 + args.a)
          /\ At(df.rsi, c.r2) * 1000 > At(df.rsi, c.r1) * (1000 - args.a)
          /\ At(df.close, c.p2) = At(df.close, c.p1)

\* C27: "Negative" is returned exactly when a peak pair qualifies, whatever the
\* valley pairs are and however recent; "Positive" exactly when no peak pair
\* qualifies and a valley pair does.
C27_BearishBeforeBullish ==
    Analysed =>
        /\ (ret.label = "Negative") <=> (Qualifying("Negative") # {})
        /\ (ret.label = "Positive") <=> (Qualifying("Negative") = {} /\ Qualifying("Positive") # {})

\* a qualifying valley pair with a later pivot than the qualifying peak pair,
\* and the label is "Negative"
C27_Witness ==
    /\ Analysed
    /\ Qualifying("Negative") # {} /\ Qualifying("Positive") # {}
    /\ Latest(Qualifying("Positive")) > Latest(Qualifying("Negative"))
    /\ ret.label = "Negative"


\* ---------------------------------------------------------------------------
\* calculate_volume_trend: the divisor of pct_change
\* ---------------------------------------------------------------------------

\* the first volume of the trailing window as the series holds it
RawWindowStart == df[Len(df) - args.period + 1]

\* C24: the divisor of pct_change is strictly positive, a zero or negative
\* first volume of the trailing window being replaced by epsilon, and the
\* direction reported has the sign of end - start.
C24_DivisorPositive ==
    (pc = "done" /\ Len(df) >= args.period) =>
        LET start == IF RawWindowStart <= 0 THEN epsilon ELSE RawWindowStart
        IN  /\ ret.pct_den > 0
            /\ ret.pct_den = start
            /\ (ret.trend = "increasing" => WindowEnd > start)
            /\ (ret.trend = "decreasing" => WindowEnd < start)


\* ---------------------------------------------------------------------------
\* detect_volume_anomalies: the rows of the baseline
\* ---------------------------------------------------------------------------

NarrativeTimeframes == {"15m", "1h", "4h", "1d"}
NarrativeTrends == {"increasing", "decreasing", "flat", "insufficient_data"}
NarrativeVsMa == {None, Some(50), Some(150)}

\* the sort key of sorted_timeframes
timeframe_rank(tf) ==
    CASE tf = "15m" -> 1 [] tf = "1h" -> 2 [] tf = "4h" -> 3 [] tf = "1d" -> 4 [] OTHER -> 999

\* sorted(cross_timeframe_volume_data.keys(), key=...)
RECURSIVE sorted_timeframes(_)
sorted_timeframes(tfs) ==
    IF tfs = {} THEN <<>>
    ELSE LET first == CHOOSE tf \in tfs : \A other \in tfs : timeframe_rank(tf) <= timeframe_rank(other)
         IN  <<first>> \o sorted_timeframes(tfs \ {first})

\* the timeframes whose trend is in the list `trends`
defined_trends(data) == {tf \in DOMAIN data : data[tf].volume_trend \notin {"insufficient_data"}}

\* mutant: every shorter timeframe has to be increasing
shorter_increasing_MutEvery(data, shorter_tfs) ==
    \A k \in 1..Len(shorter_tfs) : data[shorter_tfs[k]].volume_trend = "increasing"

\* any(... == 'increasing' for tf in shorter_tfs)
shorter_increasing(data, shorter_tfs) ==
    \E k \in 1..Len(shorter_tfs) : data[shorter_tfs[k]].volume_trend = "increasing"

\* all(... in ['flat', 'decreasing'] for tf in longer_tfs if ...)
longer_flat_or_decreasing(data, longer_tfs) ==
    \A k \in 1..Len(longer_tfs) : data[longer_tfs[k]].volume_trend \in {"flat", "decreasing"}

\* the lines of the else branch: trends vary, and the short-vs-long divergence
varying_lines(data) ==
    LET sorted == sorted_timeframes(DOMAIN data)
        half == Len(sorted) \div 2
        shorter_tfs == SubSeq(sorted, 1, half)
        longer_tfs == SubSeq(sorted, half + 1, Len(sorted))
    IN  {"varying"} \cup
        (IF Len(shorter_tfs) > 0 /\ Len(longer_tfs) > 0
            /\ shorter_increasing(data, shorter_tfs) /\ longer_flat_or_decreasing(data, longer_tfs)
         THEN {"short_vs_long"} ELSE {})

\* the if / elif / else over the trends
direction_lines(data) ==
    IF \A tf \in defined_trends(data) : data[tf].volume_trend = "increasing" THEN {"all_increasing"}
    ELSE IF \A tf \in defined_trends(data) : data[tf].volume_trend = "decreasing" THEN {"all_decreasing"}
    ELSE varying_lines(data)

\* above_ma_count, below_ma_count and the line of the majority
moving_average_lines(data) ==
    LET above_ma_count == Cardinality({tf \in DOMAIN data :
                              data[tf].current_vs_ma # None /\ data[tf].current_vs_ma[1] > 100})
        below_ma_count == Cardinality({tf \in DOMAIN data :
                              data[tf].current_vs_ma # None /\ data[tf].current_vs_ma[1] < 100})
    IN  IF above_ma_count > below_ma_count THEN {"mostly_above_ma"}
        ELSE IF below_ma_count > above_ma_count THEN {"mostly_below_ma"}
        ELSE {}

\* the section is written for more than one timeframe only
volume_interpretation(data) ==
    IF Cardinality(DOMAIN data) > 1
    THEN direction_lines(data) \cup moving_average_lines(data)
    ELSE {}

InitNarrative ==
    /\ pc = "call"
    /\ \E tfs \in SUBSET NarrativeTimeframes :
          df \in [tfs -> [volume_trend : NarrativeTrends, current_vs_ma : NarrativeVsMa]]
    /\ args = <<>>
    /\ ret = NoRet

BuildPromptDataString ==
    /\ pc = "call"
    /\ ret' = volume_interpretation(df)
    /\ pc' = "done"
    /\ UNCHANGED <<df, args>>

NextNarrative == BuildPromptDataString

SpecNarrative == InitNarrative /\ [][NextNarrative]_vars

Compared == pc = "done" /\ Cardinality(DOMAIN df) > 1

\* the timeframes with a trend other than insufficient_data
WithTrend == {tf \in DOMAIN df : df[tf].volume_trend # "insufficient_data"}

ByDuration == sorted_timeframes(DOMAIN df)
FirstHalf == {ByDuration[k] : k \in 1..(Len(ByDuration) \div 2)}
SecondHalf == DOMAIN df \ FirstHalf

\* C26: the short-vs-long line is written exactly when every timeframe of the
\* first (shorter) half is increasing and every timeframe of the second half is
\* flat or decreasing.
C26_EveryShorterIncreasing ==
    Compared =>
        ("short_vs_long" \in ret) <=>
            /\ \A tf \in FirstHalf : df[tf].volume_trend = "increasing"
            /\ \A tf \in SecondHalf : df[tf].volume_trend \in {"flat", "decreasing"}

\* C26 as amended: the short-vs-long line is written exactly when at least one
\* timeframe of the first (shorter) half is increasing and every timeframe of
\* the second half is flat or decreasing; the first half is the len div 2
\* shortest timeframes.
C26_SomeShorterIncreasing ==
    Compared =>
        ("short_vs_long" \in ret) <=>
            /\ \E tf \in FirstHalf : df[tf].volume_trend = "increasing"
            /\ \A tf \in SecondHalf : df[tf].volume_trend \in {"flat", "decreasing"}

\* four timeframes, of the two shorter ones only the 15m is increasing
C26_Witness ==
    /\ Compared
    /\ DOMAIN df = NarrativeTimeframes
    /\ df["15m"].volume_trend = "increasing" /\ df["1h"].volume_trend = "flat"
    /\ df["4h"].volume_trend = "flat" /\ df["1d"].volume_trend = "decreasing"
    /\ "short_vs_long" \in ret


\* ------------------------------------------------------------------------
\* format_price_data_for_llm (analysis_logic.py): live and historical
\* formatting of the klines of several intervals.
\*   df   : klines_by_interval, the dict in insertion order, a sequence of
\*          [code, klines]
\*   args : [is_historical, historical_timestamp_ms, lastPrice, raises]
\*          raises = the intervals whose indicator computation throws
\*   ret  : [text, header, source, processed, timeframe_dfs, cross]
\*          source is the kline the header price was read from
\* A kline is [open_time, close]; the klines of an interval are ascending in
\* open_time, as the exchange client returns them.
\* ------------------------------------------------------------------------

min_klines == 50

DEFAULT_KLINE_LIMIT == 1000

IntervalCodes == <<"15m", "4h">>

KlineCounts == {0, min_klines - 1, min_klines, DEFAULT_KLINE_LIMIT + 1}

KlineSteps == {1, 3}

Timestamps ==
    {0, min_klines - 1, min_klines, DEFAULT_KLINE_LIMIT,
     3 * DEFAULT_KLINE_LIMIT + 3}

kline(i, step) == [open_time |-> i * step, close |-> 100 + i * step]

klines_of(n, step) == [i \in 1..n |-> kline(i, step)]

\* [k for k in klines if k[0] <= historical_timestamp_ms]
valid_historical_klines(klines, T) ==
    SelectSeq(klines, LAMBDA k : k.open_time <= T)

\* The header loop: the last valid kline of each interval replaces the one
\* found so far when its open_time is greater (latest_kline_time_historical
\* starts at 0).
RECURSIVE latest_historical(_, _, _)
latest_historical(items, T, best) ==
    IF items = <<>> THEN best
    ELSE LET valid == valid_historical_klines(Head(items).klines, T)
             last_valid_kline == valid[Len(valid)]
             latest_kline_time_historical ==
                 IF best = None THEN 0 ELSE best[1].open_time
             found ==
                 IF valid # <<>>
                    /\ last_valid_kline.open_time > latest_kline_time_historical
                 THEN Some(last_valid_kline)
                 ELSE best
         IN latest_historical(Tail(items), T, found)

\* current_price of header_price_info; None stands for 'N/A'.
header_price_info(items, is_historical, T, lastPrice) ==
    IF is_historical
    THEN LET best == latest_historical(items, T, None)
         IN [current_price |-> IF best = None THEN None
                               ELSE Some(best[1].close),
             source |-> best]
    ELSE [current_price |-> lastPrice, source |-> None]

\* The filter runs under "if is_historical and historical_timestamp_ms":
\* a timestamp of 0 is falsy.
actual_klines_to_process(klines, is_historical, T) ==
    IF is_historical /\ T # 0
    THEN LET valid == valid_historical_klines(klines, T)
         IN IF Len(valid) > DEFAULT_KLINE_LIMIT
            THEN SubSeq(valid, Len(valid) - DEFAULT_KLINE_LIMIT + 1, Len(valid))
            ELSE valid
    ELSE klines

\* One round of the main loop: the entry of processed_data_by_interval and
\* the klines the indicators and the price summary were computed from.
process_interval(item, is_historical, T, raises) ==
    LET actual == actual_klines_to_process(item.klines, is_historical, T)
    IN IF actual = <<>> \/ Len(actual) < min_klines
       THEN [error |-> "insufficient", used |-> <<>>]
       ELSE IF item.code \in raises
       THEN [error |-> "exception", used |-> <<>>]
       ELSE [error |-> "none", used |-> actual]

format_price_data_for_llm(items, is_historical, T, lastPrice, raises) ==
    LET header == header_price_info(items, is_historical, T, lastPrice)
        processed ==
            [i \in 1..Len(items) |->
                process_interval(items[i], is_historical, T, raises)]
        timeframe_dfs == {i \in 1..Len(items) : processed[i].error = "none"}
        has_any_valid_data == timeframe_dfs # {}
    IN [text |-> IF has_any_valid_data THEN "prompt" ELSE "no_data",
        header |-> header.current_price,
        source |-> header.source,
        processed |-> processed,
        timeframe_dfs |-> timeframe_dfs,
        cross |-> IF Cardinality(timeframe_dfs) > 1 THEN timeframe_dfs ELSE {}]

InitHistorical ==
    /\ pc = "call"
    /\ \E n1 \in KlineCounts, n2 \in KlineCounts,
          s1 \in KlineSteps, s2 \in KlineSteps :
          df = <<[code |-> IntervalCodes[1], klines |-> klines_of(n1, s1)],
                 [code |-> IntervalCodes[2], klines |-> klines_of(n2, s2)]>>
    /\ \E h \in BOOLEAN, T \in Timestamps,
          c \in {{}, {IntervalCodes[1]}, {IntervalCodes[2]}} :
          \E p \in (IF h THEN {None} ELSE {None, Some(777)}) :
             args = [is_historical |-> h, historical_timestamp_ms |-> T,
                     lastPrice |-> p, raises |-> c]
    /\ ret = None

FormatPriceDataForLlm ==
    /\ pc = "call"
    /\ pc' = "done"
    /\ ret' = format_price_data_for_llm(df, args.is_historical,
                  args.historical_timestamp_ms, args.lastPrice, args.raises)
    /\ UNCHANGED <<df, args>>

NextHistorical == FormatPriceDataForLlm

SpecHistorical == InitHistorical /\ [][NextHistorical]_vars

HistoricalDone == pc = "done" /\ args.is_historical

\* The klines of interval i that opened at or before the target timestamp.
KnownAt(i) ==
    {k \in Range(df[i].klines) : k.open_time <= args.historical_timestamp_ms}

\* C29: in a historical run with target timestamp T, every kline used for an
\* interval's indicators and price summary, every kline of a frame handed to
\* the cross-timeframe volume comparison, and the kline supplying the header
\* price, has open_time <= T; an interval with fewer than 50 such klines gets
\* an error entry, and no other interval gets one on its account (an
\* interval with 50 or more such klines whose computation does not throw is
\* processed).
C29_NoLookAhead ==
    HistoricalDone =>
        /\ \A i \in 1..Len(df) :
              /\ Range(ret.processed[i].used) \subseteq KnownAt(i)
              /\ Cardinality(KnownAt(i)) < min_klines
                    => ret.processed[i].error # "none"
              /\ (Cardinality(KnownAt(i)) >= min_klines
                  /\ df[i].code \notin args.raises)
                    => ret.processed[i].error = "none"
        /\ \A i \in ret.cross : Range(ret.processed[i].used) \subseteq KnownAt(i)
        /\ ret.source # None
              => ret.source[1].open_time <= args.historical_timestamp_ms


\* ------------------------------------------------------------------------
\* AnalysisModuleRegistry (module_registry.py) and the facade's has_module
\* (analysis_facade.py).
\*   df   : registry.modules, the dict name -> module
\*   args : the register_module / unregister_module calls made so far
\*   ret  : the last call, [op, name, value, before]; before is
\*          registry.modules as the call found it
\* A module instance is [name, id]; two instances of one name differ in id.
\* ------------------------------------------------------------------------

MaxOps == 4

MaxInstances == 2

ModuleNames == {"crypto_analysis", "spot_trading_analysis"}

ModuleInstances == [name : ModuleNames, id : 1..MaxInstances]

\* name in self.modules
has_module(modules, name) == name \in DOMAIN modules

get_module(modules, name) ==
    IF name \notin DOMAIN modules THEN None ELSE Some(modules[name])

\* A registration that keeps the module already held under the name.
register_module_MutKeepFirst(modules, module) ==
    [n \in DOMAIN modules \cup {module.name} |->
        IF n \in DOMAIN modules THEN modules[n] ELSE module]

\* self.modules[module_name] = module
register_module(modules, module) ==
    [n \in DOMAIN modules \cup {module.name} |->
        IF n = module.name THEN module ELSE modules[n]]

\* del self.modules[name] and True, or False when the name is not a key
unregister_module(modules, name) ==
    IF name \in DOMAIN modules
    THEN [modules |-> [n \in DOMAIN modules \ {name} |-> modules[n]],
          value |-> TRUE]
    ELSE [modules |-> modules, value |-> FALSE]

\* AnalysisFacade.has_module: registry.get_module(module_name) is not None
facade_has_module(modules, module_name) ==
    get_module(modules, module_name) # None

InitRegistry ==
    /\ pc = "registry"
    /\ df = <<>>
    /\ args = <<>>
    /\ ret = [op |-> "__init__", name |-> "", value |-> None, before |-> <<>>]

RegisterModule ==
    /\ pc = "registry"
    /\ Len(args) < MaxOps
    /\ \E module \in ModuleInstances :
          /\ df' = register_module(df, module)
          /\ args' = Append(args, [op |-> "register_module",
                                   name |-> module.name,
                                   module |-> Some(module)])
          /\ ret' = [op |-> "register_module", name |-> module.name,
                     value |-> None, before |-> df]
    /\ UNCHANGED pc

UnregisterModule ==
    /\ pc = "registry"
    /\ Len(args) < MaxOps
    /\ \E name \in ModuleNames :
          /\ df' = unregister_module(df, name).modules
          /\ args' = Append(args, [op |-> "unregister_module",
                                   name |-> name, module |-> None])
          /\ ret' = [op |-> "unregister_module", name |-> name,
                     value |-> Some(unregister_module(df, name).value),
                     before |-> df]
    /\ UNCHANGED pc

GetModule ==
    /\ pc = "registry"
    /\ \E name \in ModuleNames :
          ret' = [op |-> "get_module", name |-> name,
                  value |-> get_module(df, name), before |-> df]
    /\ UNCHANGED <<pc, df, args>>

HasModule ==
    /\ pc = "registry"
    /\ \E name \in ModuleNames :
          ret' = [op |-> "has_module", name |-> name,
                  value |-> Some(has_module(df, name)), before |-> df]
    /\ UNCHANGED <<pc, df, args>>

FacadeHasModule ==
    /\ pc = "registry"
    /\ \E name \in ModuleNames :
          ret' = [op |-> "facade_has_module", name |-> name,
                  value |-> Some(facade_has_module(df, name)), before |-> df]
    /\ UNCHANGED <<pc, df, args>>

NextRegistry ==
    \/ RegisterModule
    \/ UnregisterModule
    \/ GetModule
    \/ HasModule
    \/ FacadeHasModule

SpecRegistry == InitRegistry /\ [][NextRegistry]_vars

\* The positions of the calls made on a name, and the last of them.
CallsOn(name) == {i \in 1..Len(args) : args[i].name = name}

LastCallOn(name) ==
    args[CHOOSE i \in CallsOn(name) : \A j \in CallsOn(name) : j <= i]

LastWasRegistration(name) ==
    CallsOn(name) # {} /\ LastCallOn(name).op = "register_module"

\* C30: after any sequence of register_module / unregister_module calls,
\* has_module(n) is true iff get_module(n) returns a module iff the last
\* call on n was a registration; the module held under n carries the name n
\* and is the most recently registered one; the answers returned by
\* get_module and both has_module agree with that; unregister_module(n)
\* returns True exactly when n was registered and leaves every other name's
\* entry as it was.
C30_RegistryConsistent ==
    pc = "registry" =>
        /\ \A n \in ModuleNames :
              /\ has_module(df, n) <=> get_module(df, n) # None
              /\ has_module(df, n) <=> facade_has_module(df, n)
              /\ has_module(df, n) <=> LastWasRegistration(n)
              /\ has_module(df, n) =>
                    /\ get_module(df, n) = LastCallOn(n).module
                    /\ df[n].name = n
        /\ ret.op = "get_module" =>
              ret.value = (IF LastWasRegistration(ret.name)
                           THEN LastCallOn(ret.name).module ELSE None)
        /\ ret.op \in {"has_module", "facade_has_module"} =>
              ret.value = Some(LastWasRegistration(ret.name))
        /\ ret.op = "unregister_module" =>
              /\ ret.value = Some(ret.name \in DOMAIN ret.before)
              /\ ret.name \notin DOMAIN df
              /\ \A n \in ModuleNames \ {ret.name} :
                    get_module(df, n) = get_module(ret.before, n)

\* A second registration has replaced the first, a registered name has been
\* unregistered with True, and the other name still holds its second module.
C30_Witness ==
    /\ pc = "registry"
    /\ Len(args) = 4
    /\ args[1].module = Some([name |-> "crypto_analysis", id |-> 1])
    /\ args[2].module = Some([name |-> "crypto_analysis", id |-> 2])
    /\ args[3].op = "register_module" /\ args[3].name = "spot_trading_analysis"
    /\ ret.op = "unregister_module" /\ ret.name = "spot_trading_analysis"
    /\ ret.value = Some(TRUE)
    /\ get_module(df, "crypto_analysis")
          = Some([name |-> "crypto_analysis", id |-> 2])
    /\ ~has_module(df, "spot_trading_analysis")

====
